---- MODULE Spec2Model ----
(***************************************************************************)
(* LoRaWAN stack controller (LoRaWANStack) and its facade                  *)
(* (LoRaWANInterface): activation, transmit pipeline, receive pipeline and *)
(* the receive() cursor.  The lower MAC (LoRaMac) and the radio are the    *)
(* environment of the controller; they are modelled from the MacOps        *)
(* contract of the specification.                                          *)
(***************************************************************************)
EXTENDS Integers, Sequences, FiniteSets, TLC

VARIABLES stack, mac, queue, app

vars == <<stack, mac, queue, app>>

(***************************************************************************)
(* Bounds of the model                                                     *)
(***************************************************************************)
MaxQueue == 1          \* deferred radio handlers waiting in the event queue
MaxRetry == 1          \* confirmed-message retransmissions MacOps may grant
MaxJoinRetry == 1      \* join retries MacOps may grant
MaxType0 == 2          \* saturation of the type-0 rejoin counter
MaxRxLen == 2          \* longest caller buffer given to receive()
MaxFrameCounter == 1   \* the MAC frame counters stop counting here
TicksPerSecond == 2    \* clock ticks in a second (1000 in get_current_time)
BeaconlessPeriod == 2  \* seconds of Class B operation without a beacon
MaxForcedRetries == 1  \* largest max_retries of a ForceRejoinReq

(***************************************************************************)
(* Program constants                                                       *)
(***************************************************************************)
INVALID_PORT == 255
MAX_CONFIRMED_MSG_RETRIES == 255
COMPLIANCE_TESTING_PORT == 224
MSG_FLAG_MASK == 15

MSG_UNCONFIRMED_FLAG == 1
MSG_CONFIRMED_FLAG == 2
MSG_MULTICAST_FLAG == 4
MSG_PROPRIETARY_FLAG == 8

UNIX_GPS_EPOCH_DIFF == 315964800   \* seconds from the Unix to the GPS epoch
LORAWAN_DEFAULT_QOS == 1

ControlFlags ==
    {"RETRY_EXHAUSTED", "MSG_RECVD", "CONNECTED", "USING_OTAA", "TX_DONE",
     "CONN_IN_PROGRESS", "REJOIN_IN_PROGRESS"}

DeviceStates ==
    {"NOT_INITIALIZED", "IDLE", "CONNECTING", "JOINING", "AWAITING_JOIN_ACCEPT",
     "CONNECTED", "SCHEDULING", "SENDING", "AWAITING_ACK", "RECEIVING",
     "STATUS_CHECK", "SHUTDOWN"}

TerminalEvents ==
    {"TX_DONE", "TX_TIMEOUT", "TX_ERROR", "TX_SCHEDULING_ERROR", "TX_CRYPTO_ERROR"}

Min(a, b) == IF a < b THEN a ELSE b

\* bitwise AND of two flag words of four bits
RECURSIVE BitAnd(_, _)
BitAnd(a, b) ==
    IF a = 0 \/ b = 0 THEN 0
    ELSE (IF a % 2 = 1 /\ b % 2 = 1 THEN 1 ELSE 0) + 2 * BitAnd(a \div 2, b \div 2)

(***************************************************************************)
(* Downlink frames the radio may deliver.                                  *)
(*   ack      the frame acknowledges the uplink in flight                  *)
(*   data     the frame yields an MCPS indication                          *)
(*   ok       the indication status is OK                                   *)
(*   fpending the network has more data pending (FPending bit)              *)
(*   mlme_ind the frame makes MacOps ask for an uplink (MLME indication)    *)
(*   confirm  the MLME confirm MacOps raises while decoding the frame      *)
(*   max_retries, rejoin_type  the fields of a ForceRejoinReq              *)
(***************************************************************************)
NoFrame ==
    [ack |-> FALSE, data |-> FALSE, port |-> 0, type |-> "UNCONFIRMED",
     payload |-> <<>>, ok |-> TRUE, fpending |-> FALSE, mlme_ind |-> FALSE,
     confirm |-> "NONE", max_retries |-> 0, rejoin_type |-> 0]
AckFrame == [NoFrame EXCEPT !.ack = TRUE]
DataFrame(port, type, payload) ==
    [NoFrame EXCEPT !.data = TRUE, !.port = port, !.type = type, !.payload = payload]
ConfirmFrame(confirm) == [NoFrame EXCEPT !.confirm = confirm]
\* the DeviceTimeAns carries the GPS time of the network
DeviceTimeAns(gps_time) ==
    [NoFrame EXCEPT !.confirm = "DEVICE_TIME_ANS", !.payload = <<gps_time>>]

ForceRejoinFrame(rejoin_type, max_retries) ==
    [NoFrame EXCEPT !.confirm = "FORCE_REJOIN", !.max_retries = max_retries,
                    !.rejoin_type = rejoin_type]

NoArg == [frame |-> NoFrame, flag |-> FALSE, port |-> 0]

\* no handler of the event queue is running
NoItem == [h |-> "NONE", frame |-> NoFrame, flag |-> FALSE, port |-> 0]

JoinResults == {"JOIN_ACCEPT_OK", "JOIN_ACCEPT_CRYPTO_FAIL", "JOIN_ACCEPT_FAIL"}

\* the DeviceModeConf of the network, by the class it carries
DeviceModeConfs == {"DEVICE_MODE_A", "DEVICE_MODE_C"}

(***************************************************************************)
(* The world a handler works on: the four variables plus the value the     *)
(* handler returns (ret).                                                  *)
(***************************************************************************)
Ret(st, len) == [st |-> st, len |-> len]
Status(st) == Ret(st, 0)
Length(n) == Ret("LEN", n)

World == [stack |-> stack, mac |-> mac, queue |-> queue, app |-> app,
          ret |-> Status("OK")]

\* a facade call or dispatched handler starts: the observation of the
\* previous step is dropped; pre keeps what held when the step started
Begin(op) ==
    [World EXCEPT !.app.op = op, !.app.posted = <<>>, !.app.calls = {},
                  !.app.copied = <<>>, !.app.out = [port |-> 0, flags |-> 0],
                  !.app.pre = [tx_ongoing |-> mac.tx_ongoing,
                               rejoin |-> "REJOIN_IN_PROGRESS" \in stack.flags,
                               state |-> stack.state, flags |-> stack.flags,
                               tx_stale |-> stack.tx_metadata_stale,
                               rx_stale |-> stack.rx_metadata_stale,
                               class |-> mac.device_class]]

Commit(w) ==
    \E r \in {w} :
        /\ stack' = r.stack
        /\ mac' = r.mac
        /\ queue' = r.queue
        /\ app' = [r.app EXCEPT !.ret = r.ret]

Return(w, r) == [w EXCEPT !.ret = r]

SetFlag(w, f) == [w EXCEPT !.stack.flags = @ \cup {f}]
ClearFlag(w, f) == [w EXCEPT !.stack.flags = @ \ {f}]
HasFlag(w, f) == f \in w.stack.flags

\* a MacOps entry point was called by the running handler
TrackedCalls ==
    {"prepare_ongoing_tx", "send_ongoing_tx", "join", "rejoin", "clear_tx_pipe",
     "setup_link_check_request", "setup_device_time_request",
     "add_ping_slot_info_req", "link_check_resp"}

Call(w, name) ==
    IF name \in TrackedCalls THEN [w EXCEPT !.app.calls = @ \cup {name}] ELSE w

\* _queue->call(handler, arguments): the handler runs when dispatched
QueueCall(w, h, arg) ==
    [w EXCEPT !.queue = Append(@, [h |-> h, frame |-> arg.frame,
                                   flag |-> arg.flag, port |-> arg.port])]


(***************************************************************************)
(* Build configuration                                                     *)
(***************************************************************************)
\* MBED_CONF_LORA_VERSION == LORAWAN_VERSION_1_1; the version the stack was
\* built for is fixed at construction
LORA_VERSION_1_1(w) == w.mac.lora_version = "LW1_1"
AUTOMATIC_UPLINK_MESSAGE == TRUE \* MBED_CONF_LORA_AUTOMATIC_UPLINK_MESSAGE

(***************************************************************************)
(* MacOps (LoRaMac) and the radio, as the controller sees them.            *)
(*   phase    what the radio is doing: OFF (asleep), BACKOFF (a             *)
(*            transmission is scheduled, the radio not yet armed), TX,      *)
(*            RX1/RX2 (that window is scheduled or open), RXC (continuous   *)
(*            Class C window), IRQ (a single-shot window or transmission    *)
(*            has ended and its handler waits in the event queue)           *)
(*   txkind   what the scheduled/ongoing transmission carries               *)
(***************************************************************************)
RestPhase(class) == IF class = "C" THEN "RXC" ELSE "OFF"
RestSlot(class, slot) == IF class = "C" THEN "CLASS_C" ELSE slot

SlotOf(phase) == CASE phase = "RX1" -> "RX1"
                   [] phase = "RX2" -> "RX2"
                   [] OTHER -> "CLASS_C"

TypeOfFlags(flags) ==
    IF BitAnd(flags, MSG_FLAG_MASK) = MSG_CONFIRMED_FLAG THEN "CONFIRMED"
    ELSE IF BitAnd(flags, MSG_FLAG_MASK) = MSG_PROPRIETARY_FLAG THEN "PROPRIETARY"
    ELSE "UNCONFIRMED"

tx_ongoing(w) == w.mac.tx_ongoing
nwk_joined(w) == w.mac.joined
get_device_class(w) == w.mac.device_class
get_server_type(w) == w.mac.server_type
get_current_slot(w) == w.mac.rx_slot
get_QOS_level(w) == w.mac.qos_level
get_prev_QOS_level(w) == w.mac.prev_qos_level
get_current_adr_ack_limit(w) == w.mac.adr_ack_limit

set_tx_ongoing(w, b) == [Call(w, "set_tx_ongoing") EXCEPT !.mac.tx_ongoing = b]

reset_ongoing_tx(w) == [Call(w, "reset_ongoing_tx") EXCEPT !.mac.tx_ongoing = FALSE]

\* the DeviceModeInd command is staged for the next uplink MacOps prepares:
\* mode_ind is STAGED, LOADED once a prepared uplink carries it, SENT once
\* that uplink is on the air, NONE after the DeviceModeConf
setup_device_mode_indication(w) ==
    [Call(w, "setup_device_mode_indication") EXCEPT !.mac.mode_ind = "STAGED"]

\* the payload is copied into the MAC's buffer; the accepted length is returned
prepare_ongoing_tx(w, port, length, flags, retries) ==
    Return([Call(w, "prepare_ongoing_tx") EXCEPT
               !.mac.msg = [len |-> length, type |-> TypeOfFlags(flags)],
               !.mac.mode_ind = IF @ = "STAGED" THEN "LOADED" ELSE @,
               !.mac.retries_left = Min(retries, MaxRetry)],
           Length(length))

\* hand the prepared message to the radio scheduler
send_ongoing_tx(w, sched) ==
    LET w1 == [Call(w, "send_ongoing_tx") EXCEPT
                  !.app.tx_calls = Min(@ + 1, get_QOS_level(w) + 1)] IN
    IF w.mac.phase \notin {"OFF", "RXC"} THEN Return(w1, Status("BUSY"))
    ELSE IF sched # "OK" THEN Return(w1, Status(sched))
    ELSE Return([w1 EXCEPT !.mac.phase = "BACKOFF", !.mac.txkind = "DATA",
                           !.mac.req_type = w.mac.msg.type,
                           !.mac.status = "ERROR"],
                Status("OK"))

continue_sending_process(w) == w.mac.retries_left > 0

continue_joining_process(w) == w.mac.join_retries_left > 0

clear_tx_pipe(w) ==
    LET w1 == Call(w, "clear_tx_pipe") IN
    IF w.mac.phase = "BACKOFF" /\ w.mac.txkind = "DATA"
    THEN Return([w1 EXCEPT !.mac.phase = RestPhase(w.mac.device_class),
                           !.mac.txkind = "NONE"], Status("OK"))
    ELSE Return(w1, Status("BUSY"))

post_process_mcps_req(w) ==
    [Call(w, "post_process_mcps_req") EXCEPT !.mac.prev_qos_level = w.mac.qos_level]

post_process_mcps_ind(w) == [w EXCEPT !.mac.ind_pending = FALSE]

\* the receive buffer goes back to the radio: the decoded indication is kept
\* only while the controller still has it flagged for delivery
drop_mcps_ind(w) ==
    [w EXCEPT !.mac.ind = IF HasFlag(w, "MSG_RECVD") THEN @ ELSE NoFrame]

post_process_mlme_ind(w) == [w EXCEPT !.mac.mlme_pending = FALSE]

mac_join(w, is_otaa) ==
    IF is_otaa
    THEN Return([Call(w, "join") EXCEPT
                    !.mac.phase = "BACKOFF", !.mac.txkind = "JOIN",
                    !.mac.joined = FALSE,
                    !.mac.ul_frame_counter = 0, !.mac.dl_frame_counter = 0,
                    !.mac.join_retries_left = MaxJoinRetry],
                Status("CONNECT_IN_PROGRESS"))
    ELSE Return([Call(w, "join") EXCEPT !.mac.joined = TRUE], Status("OK"))

mac_retry_join(w) ==
    [w EXCEPT !.mac.phase = "BACKOFF", !.mac.txkind = "JOIN",
              !.mac.join_retries_left = @ - 1]

mac_disconnect(w) ==
    [Call(w, "disconnect") EXCEPT
        !.mac.phase = "OFF", !.mac.txkind = "NONE", !.mac.joined = FALSE,
        !.mac.tx_ongoing = FALSE, !.mac.device_class = "A"]

mac_rejoin(w) ==
    IF w.mac.phase \in {"OFF", "RXC"}
    THEN [Call(w, "rejoin") EXCEPT !.mac.phase = "BACKOFF", !.mac.txkind = "REJOIN"]
    ELSE Call(w, "rejoin")

\* Class B needs an acquired beacon
mac_set_device_class(w, class) ==
    IF class = "B" /\ w.mac.beacon # "LOCKED"
    THEN Return(Call(w, "set_device_class"), Status("NO_BEACON_FOUND"))
    ELSE Return([Call(w, "set_device_class") EXCEPT
                    !.mac.device_class = class,
                    !.mac.phase = IF w.mac.phase \in {"OFF", "RXC"}
                                  THEN RestPhase(class) ELSE @],
                Status("OK"))

\* get_current_time(): the millisecond clock, which wraps around
ClockModulus == 4 * (BeaconlessPeriod + 1) * TicksPerSecond
get_current_time(w) == w.mac.now

mac_enable_beacon_acquisition(w) ==
    Return([w EXCEPT !.mac.beacon = IF @ = "NONE" THEN "ACQUIRING" ELSE @],
           Status("OK"))

on_radio_tx_done(w) ==
    [Call(w, "on_radio_tx_done") EXCEPT
        !.mac.phase = "RX1",
        !.mac.ul_frame_counter = IF w.mac.txkind = "DATA"
                                 THEN Min(@ + 1, MaxFrameCounter) ELSE @,
        !.mac.status = IF w.mac.txkind = "DATA" /\ w.mac.req_type # "CONFIRMED"
                       THEN "OK" ELSE @,
        !.mac.mode_ind = IF w.mac.txkind = "DATA" /\ @ = "LOADED" THEN "SENT" ELSE @]

on_radio_tx_timeout(w) ==
    [Call(w, "on_radio_tx_timeout") EXCEPT
        !.mac.phase = RestPhase(w.mac.device_class),
        !.mac.rx_slot = RestSlot(w.mac.device_class, @),
        !.mac.txkind = "NONE",
        !.mac.status = "TX_TIMEOUT"]

\* the window that follows RX1: a Class C device goes back to its
\* continuous window after a data uplink, every other case opens RX2
AfterRx1(m) == IF m.device_class = "C" /\ m.txkind = "DATA" THEN "RXC" ELSE "RX2"

\* a window ended without a frame: RX2 follows RX1, nothing follows RX2
on_radio_rx_timeout(w) ==
    LET w1 == Call(w, "on_radio_rx_timeout") IN
    IF w.mac.rx_slot = "RX1"
    THEN [w1 EXCEPT !.mac.phase = AfterRx1(w.mac)]
    ELSE IF w.mac.rx_slot = "RX2"
    THEN [w1 EXCEPT !.mac.phase = RestPhase(w.mac.device_class),
                    !.mac.txkind = IF w.mac.txkind = "DATA" /\ w.mac.tx_ongoing
                                   THEN @ ELSE "NONE"]
    ELSE w1

\* does a frame received in RX1 leave the pending request unanswered?
Unanswered(w, frame) ==
    \/ w.mac.txkind \in {"JOIN", "REJOIN"} /\ frame.confirm # "JOIN_ACCEPT_OK"
    \/ /\ w.mac.txkind = "DATA" /\ w.mac.tx_ongoing
       /\ w.mac.req_type = "CONFIRMED" /\ ~frame.ack

\* a frame was received: it is decoded into the MCPS indication and its
\* payload into the storage MacOps owns (rx_buffer); the windows of the
\* uplink are closed unless an RX1 frame left the request unanswered
on_radio_rx_done(w, frame) ==
    LET w1 == Call(w, "on_radio_rx_done")
        single == w.mac.rx_slot \in {"RX1", "RX2"}
        next == IF ~single THEN w.mac.phase
                ELSE IF w.mac.rx_slot = "RX1" /\ Unanswered(w, frame)
                     THEN AfterRx1(w.mac)
                     ELSE RestPhase(w.mac.device_class)
    IN [w1 EXCEPT
          !.mac.ind = frame,
          !.mac.rx_buffer = IF frame.data THEN frame.payload ELSE @,
          !.mac.dl_frame_counter = IF frame.data THEN Min(@ + 1, MaxFrameCounter)
                                   ELSE @,
          !.app.clean = IF frame.data THEN FALSE ELSE @,
          !.mac.ind_pending = frame.data,
          !.mac.mlme_pending = frame.mlme_ind,
          !.mac.phase = next,
          !.mac.joined = IF frame.confirm = "JOIN_ACCEPT_OK" THEN TRUE ELSE @,
          !.mac.mode_ind = IF frame.confirm \in DeviceModeConfs THEN "NONE" ELSE @,
          !.mac.txkind = IF single /\ next \in {"OFF", "RXC"}
                            /\ ~(w.mac.txkind = "DATA" /\ w.mac.tx_ongoing
                                 /\ w.mac.req_type = "CONFIRMED" /\ ~frame.ack)
                         THEN "NONE" ELSE @,
          !.mac.status = IF frame.ack /\ w.mac.txkind = "DATA"
                            /\ w.mac.req_type = "CONFIRMED" THEN "OK" ELSE @]


(***************************************************************************)
(* LoRaWANStack: private helpers                                           *)
(***************************************************************************)
send_event_to_application(w, event) ==
    IF w.stack.events_cb
    THEN [w EXCEPT !.app.posted = Append(@, event),
                   !.app.term = IF event \in TerminalEvents /\ w.app.owner = "APP"
                                THEN (IF @ = "NONE" THEN "ONE" ELSE "MANY") ELSE @]
    ELSE w

make_tx_metadata_available(w) == [w EXCEPT !.stack.tx_metadata_stale = FALSE]

make_rx_metadata_available(w) == [w EXCEPT !.stack.rx_metadata_stale = FALSE]

is_port_valid(port, allow_port_0) ==
    IF port = 0 THEN allow_port_0
    ELSE IF port = COMPLIANCE_TESTING_PORT THEN FALSE
    ELSE TRUE

set_application_port(w, port, allow_port_0) ==
    IF is_port_valid(port, allow_port_0)
    THEN Return([w EXCEPT !.stack.app_port = port], Status("OK"))
    ELSE Return(w, Status("PORT_INVALID"))

state_machine_run_to_completion(w) ==
    IF get_device_class(w) = "C"
    THEN [w EXCEPT !.stack.state = "RECEIVING"]
    ELSE [w EXCEPT !.stack.state = "IDLE"]

convert_to_msg_flag(type) ==
    CASE type = "UNCONFIRMED" -> MSG_UNCONFIRMED_FLAG
      [] type = "CONFIRMED" -> MSG_CONFIRMED_FLAG
      [] type = "MULTICAST" -> MSG_MULTICAST_FLAG
      [] type = "PROPRIETARY" -> MSG_PROPRIETARY_FLAG

mcps_confirm_handler(w) ==
    CASE w.mac.status = "OK" ->
            send_event_to_application(
               [w EXCEPT !.stack.uplink_counter = w.mac.ul_frame_counter], "TX_DONE")
      [] w.mac.status = "TX_TIMEOUT" -> send_event_to_application(w, "TX_TIMEOUT")
      [] w.mac.status = "TX_DR_PAYLOAD_SIZE_ERROR" ->
            send_event_to_application(w, "TX_SCHEDULING_ERROR")
      [] OTHER -> send_event_to_application(w, "TX_ERROR")

mcps_indication_handler(w) ==
    LET ind == w.mac.ind IN
    IF ~ind.ok THEN send_event_to_application(w, "RX_ERROR")
    ELSE IF ind.port = COMPLIANCE_TESTING_PORT
    THEN [w EXCEPT !.stack.downlink_counter = w.mac.dl_frame_counter]
    ELSE
      LET w0 == [w EXCEPT !.stack.downlink_counter = w.mac.dl_frame_counter]
          w1 == IF ind.data
                THEN send_event_to_application(
                        [w0 EXCEPT !.app.original = ind.payload,
                                  !.app.delivered = <<>>,
                                  !.app.clean = w0.stack.rx_msg.pending_size = 0,
                                  !.stack.rx_msg.buffer_size = Len(ind.payload),
                                  !.stack.rx_msg.buffer = "rx_buffer",
                                  !.stack.rx_msg.port = ind.port,
                                  !.stack.rx_msg.type = ind.type,
                                  !.stack.rx_msg.receive_ready = TRUE],
                        "RX_DONE")
                ELSE w0
      IN IF \/ get_device_class(w1) # "C" /\ ind.fpending
            \/ get_device_class(w1) = "C" /\ ind.type = "CONFIRMED"
         THEN (IF AUTOMATIC_UPLINK_MESSAGE
               THEN (IF ~w1.stack.automatic_uplink_ongoing
                     THEN QueueCall([w1 EXCEPT !.stack.automatic_uplink_ongoing = TRUE],
                                    "send_automatic_uplink_message",
                                    [NoArg EXCEPT !.port = ind.port])
                     ELSE w1)
               ELSE send_event_to_application(w1, "UPLINK_REQUIRED"))
         ELSE w1

(***************************************************************************)
(* LoRaWANStack: the state controller                                      *)
(***************************************************************************)
\* process_shutdown_state without the reset of the control flags
process_shutdown_state_keeps_flags(w) ==
    LET w1 == mac_disconnect(w)
        w2 == [w1 EXCEPT !.stack.active = FALSE, !.stack.state = "SHUTDOWN"]
    IN Return(send_event_to_application(w2, "DISCONNECTED"), Status("DEVICE_OFF"))

process_shutdown_state(w) ==
    LET w1 == mac_disconnect(w)
        w2 == [w1 EXCEPT !.stack.active = FALSE, !.stack.state = "SHUTDOWN",
                         !.stack.flags = {}]
    IN Return(send_event_to_application(w2, "DISCONNECTED"), Status("DEVICE_OFF"))

process_status_check_state(w) ==
    IF w.stack.state \in {"SENDING", "AWAITING_ACK"}
    THEN mcps_confirm_handler(
            reset_ongoing_tx(set_tx_ongoing(ClearFlag(w, "TX_DONE"), FALSE)))
    ELSE IF w.stack.state = "RECEIVING"
    THEN
      LET w1 == IF HasFlag(w, "TX_DONE") \/ HasFlag(w, "RETRY_EXHAUSTED")
                THEN LET c == reset_ongoing_tx(set_tx_ongoing(
                                 ClearFlag(ClearFlag(w, "TX_DONE"), "RETRY_EXHAUSTED"),
                                 FALSE))
                     IN IF c.stack.automatic_uplink_ongoing
                        THEN [c EXCEPT !.stack.automatic_uplink_ongoing = FALSE]
                        ELSE mcps_confirm_handler(c)
                ELSE w
      IN IF HasFlag(w1, "MSG_RECVD")
         THEN mcps_indication_handler(ClearFlag(w1, "MSG_RECVD"))
         ELSE w1
    ELSE w

process_scheduling_state(w, sched) ==
    IF /\ w.stack.state # "IDLE"
       /\ w.stack.state # "RECEIVING" /\ get_device_class(w) # "C"
    THEN Return(w, Status("BUSY"))
    ELSE LET w1 == send_ongoing_tx(w, sched) IN
         IF w1.ret = Status("OK")
         THEN [set_tx_ongoing(ClearFlag(w1, "TX_DONE"), TRUE)
                 EXCEPT !.stack.state = "SENDING"]
         ELSE w1

process_joining_state(w) ==
    IF w.stack.state = "CONNECTING"
    THEN mac_join([w EXCEPT !.stack.state = "JOINING"], TRUE)
    ELSE IF w.stack.state = "AWAITING_JOIN_ACCEPT" /\ get_current_slot(w) # "RX1"
    THEN LET w1 == [w EXCEPT !.stack.state = "JOINING"] IN
         IF ~continue_joining_process(w1)
         THEN [send_event_to_application(ClearFlag(w1, "CONN_IN_PROGRESS"),
                                         "JOIN_FAILURE")
                 EXCEPT !.stack.state = "IDLE"]
         ELSE mac_retry_join(w1)
    ELSE w

process_connected_state(w) ==
    LET w1 == ClearFlag(SetFlag(w, "CONNECTED"), "CONN_IN_PROGRESS")
        w2 == send_event_to_application([w1 EXCEPT !.stack.active = TRUE], "CONNECTED")
    IN [w2 EXCEPT !.stack.state = "IDLE"]

process_connecting_state(w) ==
    LET w1 == [w EXCEPT !.stack.state = "CONNECTING"] IN
    IF HasFlag(w1, "USING_OTAA")
    THEN process_joining_state(w1)
    ELSE LET w2 == mac_join(w1, FALSE) IN
         Return(process_connected_state(w2), w2.ret)

process_uninitialized_state(w, init_ok) ==
    IF init_ok
    THEN Return([w EXCEPT !.stack.state = "IDLE"], Status("OK"))
    ELSE Return(w, Status("PARAMETER_INVALID"))

process_idle_state(w, init_ok) ==
    IF w.stack.state = "NOT_INITIALIZED"
    THEN process_uninitialized_state([w EXCEPT !.stack.state = "IDLE"], init_ok)
    ELSE Return([w EXCEPT !.stack.state = "IDLE"], Status("OK"))

\* sched: the outcome MacOps gives to send_ongoing_tx, should the new state
\* be SCHEDULING; init_ok: the outcome of MacOps initialize()
\* (the world handed to the state handler is bound once, as a value)
state_controller(w, new_state, sched, init_ok) ==
    CHOOSE r \in
        { CASE new_state = "IDLE" -> process_idle_state(w0, init_ok)
            [] new_state = "CONNECTING" -> process_connecting_state(w0)
            [] new_state = "JOINING" -> process_joining_state(w0)
            [] new_state = "CONNECTED" -> process_connected_state(w0)
            [] new_state = "SCHEDULING" -> process_scheduling_state(w0, sched)
            [] new_state = "STATUS_CHECK" -> process_status_check_state(w0)
            [] new_state = "SHUTDOWN" -> process_shutdown_state(w0)
          : w0 \in {Return(w, Status("OK"))} } : TRUE

status_check(w) == state_controller(w, "STATUS_CHECK", "OK", TRUE)


(***************************************************************************)
(* LoRaWANStack: public methods                                            *)
(***************************************************************************)
OVER_THE_AIR_ACTIVATION == TRUE   \* MBED_CONF_LORA_OVER_THE_AIR_ACTIVATION

initialize_mac_layer(w, queue_null, init_ok) ==
    IF queue_null THEN Return(w, Status("PARAMETER_INVALID"))
    ELSE state_controller(w, "IDLE", "OK", init_ok)

set_lora_callbacks(w, events_null, link_check_resp_null) ==
    IF w.stack.state = "NOT_INITIALIZED" THEN Return(w, Status("NOT_INITIALIZED"))
    ELSE IF events_null THEN Return(w, Status("PARAMETER_INVALID"))
    ELSE Return([w EXCEPT !.stack.events_cb = TRUE,
                          !.stack.link_check_cb = IF link_check_resp_null THEN @ ELSE TRUE],
                Status("OK"))

\* handle_connect that zeroes the counters for ABP as well
handle_connect_abp_resets(w, is_otaa) ==
    LET w1 == [SetFlag(w, "CONN_IN_PROGRESS") EXCEPT !.stack.downlink_counter = 0,
                                                     !.stack.uplink_counter = 0]
        w2 == IF is_otaa
              THEN SetFlag(w1, "USING_OTAA")
              ELSE ClearFlag([w1 EXCEPT !.stack.reset_ind_requested =
                                           IF LORA_VERSION_1_1(w) THEN TRUE ELSE @],
                             "USING_OTAA")
    IN state_controller(w2, "CONNECTING", "OK", TRUE)

handle_connect(w, is_otaa) ==
    LET w1 == SetFlag(w, "CONN_IN_PROGRESS")
        w2 == IF is_otaa
              THEN SetFlag([w1 EXCEPT !.stack.downlink_counter = 0,
                                      !.stack.uplink_counter = 0], "USING_OTAA")
              ELSE ClearFlag([w1 EXCEPT !.stack.reset_ind_requested =
                                           IF LORA_VERSION_1_1(w) THEN TRUE ELSE @],
                             "USING_OTAA")
    IN state_controller(w2, "CONNECTING", "OK", TRUE)

\* connect without the guard on a connection in progress
connect_no_busy_guard(w, ctype) ==
    IF w.stack.state = "NOT_INITIALIZED" THEN Return(w, Status("NOT_INITIALIZED"))
    ELSE IF HasFlag(w, "CONNECTED") THEN Return(w, Status("ALREADY_CONNECTED"))
    ELSE IF ctype = "DEFAULT" THEN handle_connect(w, OVER_THE_AIR_ACTIVATION)
    ELSE IF ctype \notin {"OTAA", "ABP"} THEN Return(w, Status("PARAMETER_INVALID"))
    ELSE handle_connect(w, ctype = "OTAA")

\* connect without the guard on an established connection
connect_no_connected_guard(w, ctype) ==
    IF w.stack.state = "NOT_INITIALIZED" THEN Return(w, Status("NOT_INITIALIZED"))
    ELSE IF HasFlag(w, "CONN_IN_PROGRESS") THEN Return(w, Status("BUSY"))
    ELSE IF ctype = "DEFAULT" THEN handle_connect(w, OVER_THE_AIR_ACTIVATION)
    ELSE IF ctype \notin {"OTAA", "ABP"} THEN Return(w, Status("PARAMETER_INVALID"))
    ELSE handle_connect(w, ctype = "OTAA")

\* connect() and connect(const lorawan_connect_t &): ctype is the connection
\* type asked for ("DEFAULT" for the form without parameters)
connect(w, ctype) ==
    IF w.stack.state = "NOT_INITIALIZED" THEN Return(w, Status("NOT_INITIALIZED"))
    ELSE IF HasFlag(w, "CONN_IN_PROGRESS") THEN Return(w, Status("BUSY"))
    ELSE IF HasFlag(w, "CONNECTED") THEN Return(w, Status("ALREADY_CONNECTED"))
    ELSE IF ctype = "DEFAULT" THEN handle_connect(w, OVER_THE_AIR_ACTIVATION)
    ELSE IF ctype \notin {"OTAA", "ABP"} THEN Return(w, Status("PARAMETER_INVALID"))
    ELSE handle_connect(w, ctype = "OTAA")

shutdown(w) ==
    IF w.stack.state = "NOT_INITIALIZED" THEN Return(w, Status("NOT_INITIALIZED"))
    ELSE state_controller(w, "SHUTDOWN", "OK", TRUE)

\* stop_sending that leaves tx_ongoing set
stop_sending_keeps_tx_ongoing(w) ==
    IF w.stack.state = "NOT_INITIALIZED" THEN Return(w, Status("NOT_INITIALIZED"))
    ELSE LET w1 == clear_tx_pipe(w) IN
         IF w1.ret = Status("OK")
         THEN Return([ClearFlag(w1, "TX_DONE") EXCEPT !.stack.state = "IDLE"],
                     Status("OK"))
         ELSE w1

stop_sending(w) ==
    IF w.stack.state = "NOT_INITIALIZED" THEN Return(w, Status("NOT_INITIALIZED"))
    ELSE LET w1 == clear_tx_pipe(w) IN
         IF w1.ret = Status("OK")
         THEN Return([set_tx_ongoing(ClearFlag(w1, "TX_DONE"), FALSE)
                        EXCEPT !.stack.state = "IDLE"], Status("OK"))
         ELSE w1

\* acquire_tx_metadata that leaves the record fresh
acquire_tx_metadata_keeps_fresh(w) ==
    IF w.stack.state = "NOT_INITIALIZED" THEN Return(w, Status("NOT_INITIALIZED"))
    ELSE IF ~w.stack.tx_metadata_stale THEN Return(w, Status("OK"))
    ELSE Return(w, Status("METADATA_NOT_AVAILABLE"))

acquire_tx_metadata(w) ==
    IF w.stack.state = "NOT_INITIALIZED" THEN Return(w, Status("NOT_INITIALIZED"))
    ELSE IF ~w.stack.tx_metadata_stale
    THEN Return([w EXCEPT !.stack.tx_metadata_stale = TRUE], Status("OK"))
    ELSE Return(w, Status("METADATA_NOT_AVAILABLE"))

acquire_rx_metadata(w) ==
    IF w.stack.state = "NOT_INITIALIZED" THEN Return(w, Status("NOT_INITIALIZED"))
    ELSE IF ~w.stack.rx_metadata_stale
    THEN Return([w EXCEPT !.stack.rx_metadata_stale = TRUE], Status("OK"))
    ELSE Return(w, Status("METADATA_NOT_AVAILABLE"))

set_device_class(w, device_class) ==
    IF w.stack.state = "NOT_INITIALIZED" THEN Return(w, Status("NOT_INITIALIZED"))
    ELSE IF get_device_class(w) # device_class
    THEN (IF get_server_type(w) = "LW1_1" /\ device_class # "B"
          THEN Return([w EXCEPT !.stack.new_class_type = device_class,
                                !.stack.device_mode_ind_needed = TRUE,
                                !.stack.device_mode_ind_ongoing = TRUE],
                      Status("OK"))
          ELSE mac_set_device_class(w, device_class))
    ELSE Return(w, Status("OK"))

\* handle_tx without the guard on the uplink in flight
handle_tx_gate_no_would_block(w) ==
    IF ~w.stack.active THEN "NO_ACTIVE_SESSIONS" ELSE "OK"

\* handle_tx: the guards on the session and on the uplink in flight
handle_tx_gate(w) ==
    IF ~w.stack.active THEN "NO_ACTIVE_SESSIONS"
    ELSE IF tx_ongoing(w) THEN "WOULD_BLOCK"
    ELSE "OK"

\* the part of handle_tx after the guards on the arguments and on the rejoin
handle_tx_checked(w, port, length, flags, allow_port_0, sched) ==
    LET w1 == IF w.stack.reset_ind_requested THEN Call(w, "setup_reset_indication")
              ELSE IF w.stack.rekey_ind_needed
              THEN (IF w.stack.rekey_ind_counter < get_current_adr_ack_limit(w)
                    THEN [Call(w, "setup_rekey_indication")
                            EXCEPT !.stack.rekey_ind_counter = @ + 1]
                    ELSE [send_event_to_application(
                             [w EXCEPT !.stack.rekey_ind_needed = FALSE],
                             "JOIN_FAILURE")
                            EXCEPT !.stack.state = "IDLE"])
              ELSE w
        w2 == IF w1.stack.device_mode_ind_needed
              THEN setup_device_mode_indication(w1) ELSE w1
    IN
    IF handle_tx_gate(w2) # "OK" THEN Return(w2, Status(handle_tx_gate(w2)))
    ELSE
      LET w3a == IF w2.stack.link_check_requested
                 THEN Call(w2, "setup_link_check_request") ELSE w2
          w3b == IF w3a.stack.device_time_requested
                 THEN Call(w3a, "setup_device_time_request") ELSE w3a
          w3 == IF w3b.stack.ping_slot_info_requested
                THEN Call(w3b, "add_ping_slot_info_req") ELSE w3b
          w4 == [w3 EXCEPT !.stack.qos_cnt = 1]
      IN
      IF ~nwk_joined(w4) THEN Return(w4, Status("NO_NETWORK_JOINED"))
      ELSE
        LET w5 == set_application_port(w4, port, allow_port_0) IN
        IF w5.ret # Status("OK") THEN w5
        ELSE IF BitAnd(flags, MSG_FLAG_MASK) \notin
                  {MSG_UNCONFIRMED_FLAG, MSG_CONFIRMED_FLAG, MSG_PROPRIETARY_FLAG}
        THEN Return(w5, Status("PARAMETER_INVALID"))
        ELSE
          LET w6 == prepare_ongoing_tx(w5, port, length, flags, w5.stack.num_retry)
              len == w6.ret
              w7 == state_controller(w6, "SCHEDULING", sched, TRUE)
          IN IF w7.ret = Status("OK") THEN Return(w7, len) ELSE w7

\* handle_tx without the guard on the rejoin in progress
handle_tx_no_rejoin_guard(w, port, data_null, length, flags, null_allowed, allow_port_0, sched) ==
    IF w.stack.state = "NOT_INITIALIZED" THEN Return(w, Status("NOT_INITIALIZED"))
    ELSE IF ~null_allowed /\ data_null THEN Return(w, Status("PARAMETER_INVALID"))
    ELSE handle_tx_checked(w, port, length, flags, allow_port_0, sched)

handle_tx(w, port, data_null, length, flags, null_allowed, allow_port_0, sched) ==
    IF w.stack.state = "NOT_INITIALIZED" THEN Return(w, Status("NOT_INITIALIZED"))
    ELSE IF ~null_allowed /\ data_null THEN Return(w, Status("PARAMETER_INVALID"))
    ELSE IF HasFlag(w, "REJOIN_IN_PROGRESS") THEN Return(w, Status("BUSY"))
    ELSE handle_tx_checked(w, port, length, flags, allow_port_0, sched)

\* the byte memcpy reads at (0-based) offset i of MacOps' receive storage; a
\* read past the bytes of the last frame yields an arbitrary byte, written -1
ReadByte(buffer, i) == IF i + 1 \in 1..Len(buffer) THEN buffer[i + 1] ELSE -1

Copy(buffer, offset, size) == [k \in 1..size |-> ReadByte(buffer, offset + k - 1)]

\* every memcpy reading from base_ptr
read_offset_from_start(whole, prev) == 0

\* where memcpy starts reading: base_ptr, or base_ptr + prev_read_size
read_offset(whole, prev) == IF whole THEN 0 ELSE prev

\* the drain of handle_rx, once the message is known to be for the caller
handle_rx_read(w, length) ==
    LET msg == w.stack.rx_msg
        base_ptr == IF msg.buffer = "rx_buffer" THEN w.mac.rx_buffer ELSE <<>>
        buffer_size == msg.buffer_size
        pending == IF msg.pending_size = 0 THEN buffer_size ELSE msg.pending_size
        prev == IF msg.pending_size = 0 THEN 0 ELSE msg.prev_read_size
        whole == prev = 0 /\ buffer_size <= length
        part == ~whole /\ pending > length
        base_size == IF whole THEN buffer_size ELSE IF part THEN length ELSE pending
        offset == read_offset(whole, prev)
        read_complete == ~part
        m1 == [msg EXCEPT !.pending_size = IF part THEN pending - length ELSE pending,
                          !.prev_read_size = IF part THEN prev + base_size ELSE prev]
        m2 == IF read_complete
              THEN [m1 EXCEPT !.buffer = "NULL", !.buffer_size = 0,
                              !.pending_size = 0, !.receive_ready = FALSE]
              ELSE m1
    IN Return([w EXCEPT !.stack.rx_msg = m2,
                        !.app.copied = Copy(base_ptr, offset, base_size),
                        !.app.delivered = @ \o Copy(base_ptr, offset, base_size)],
              Length(base_size))

\* handle_rx without the guard on receive_ready
handle_rx_gate_no_ready_check(w) ==
    IF w.stack.state = "NOT_INITIALIZED" THEN "NOT_INITIALIZED"
    ELSE IF ~w.stack.active THEN "NO_ACTIVE_SESSIONS"
    ELSE "OK"

\* handle_rx: the guards on the stack, the session and the pending message
handle_rx_gate(w) ==
    IF w.stack.state = "NOT_INITIALIZED" THEN "NOT_INITIALIZED"
    ELSE IF ~w.stack.active THEN "NO_ACTIVE_SESSIONS"
    ELSE IF ~w.stack.rx_msg.receive_ready THEN "WOULD_BLOCK"
    ELSE "OK"

\* the validation of handle_rx without the comparison of the ports
rx_params_mismatch_flags_only(w, port, flags, received_flags) ==
    BitAnd(flags, received_flags) = 0

\* handle_rx: the pending message is not the one the caller asked for
rx_params_mismatch(w, port, flags, received_flags) ==
    \/ w.stack.rx_msg.port # port
    \/ BitAnd(flags, received_flags) = 0

\* port and flags are the values of the reference arguments on entry;
\* app.out holds their values on return
handle_rx(w, data_null, length, port, flags, validate_params) ==
    LET w0 == [w EXCEPT !.app.out = [port |-> port, flags |-> flags]] IN
    IF handle_rx_gate(w) # "OK" THEN Return(w0, Status(handle_rx_gate(w)))
    ELSE IF data_null \/ length = 0 THEN Return(w0, Status("PARAMETER_INVALID"))
    ELSE
      LET all_flags == convert_to_msg_flag(w.stack.rx_msg.type)
          received_flags == IF validate_params THEN BitAnd(all_flags, MSG_FLAG_MASK)
                            ELSE all_flags
      IN IF validate_params /\ rx_params_mismatch(w, port, flags, received_flags)
         THEN Return(w0, Status("WOULD_BLOCK"))
         ELSE handle_rx_read(
                 [w EXCEPT !.app.out = [port |-> w.stack.rx_msg.port,
                                        flags |-> received_flags]],
                 length)


(***************************************************************************)
(* LoRaWANStack: GPS time and the sticky MAC command requests              *)
(***************************************************************************)
get_current_gps_time(w) == w.mac.gps_time

set_current_gps_time(w, gps_time) == [w EXCEPT !.mac.gps_time = gps_time]

\* set_link_check_request that does not look at the callback
set_link_check_request_no_callback_guard(w) ==
    IF w.stack.state = "NOT_INITIALIZED" THEN Return(w, Status("NOT_INITIALIZED"))
    ELSE Return([w EXCEPT !.stack.link_check_requested = TRUE], Status("OK"))

set_link_check_request(w) ==
    IF w.stack.state = "NOT_INITIALIZED" THEN Return(w, Status("NOT_INITIALIZED"))
    ELSE IF ~w.stack.link_check_cb THEN Return(w, Status("PARAMETER_INVALID"))
    ELSE Return([w EXCEPT !.stack.link_check_requested = TRUE], Status("OK"))

remove_link_check_request(w) == [w EXCEPT !.stack.link_check_requested = FALSE]

\* the callback handed to setup_device_time_request: MacOps calls it with
\* the GPS time of the DeviceTimeAns
handle_device_time_sync_event(w, gps_time) ==
    LET w1 == [w EXCEPT !.stack.device_time_requested = FALSE]
        uplink_elapsed_time ==
            (get_current_time(w1) - w1.stack.tx_timestamp + ClockModulus) % ClockModulus
    IN send_event_to_application(set_current_gps_time(w1, gps_time + uplink_elapsed_time),
                                 "DEVICE_TIME_SYNCHED")

set_device_time_request(w) ==
    IF w.stack.state = "NOT_INITIALIZED" THEN Return(w, Status("NOT_INITIALIZED"))
    ELSE IF ~nwk_joined(w) THEN Return(w, Status("NO_NETWORK_JOINED"))
    ELSE Return([w EXCEPT !.stack.device_time_requested = TRUE], Status("OK"))

remove_device_time_request(w) == [w EXCEPT !.stack.device_time_requested = FALSE]

\* set_ping_slot_info_ok: MacOps accepts the periodicity
add_ping_slot_info_request(w, set_ping_slot_info_ok) ==
    IF w.stack.state = "NOT_INITIALIZED" THEN Return(w, Status("NOT_INITIALIZED"))
    ELSE IF get_device_class(w) # "A" THEN Return(w, Status("NO_OP"))
    ELSE IF set_ping_slot_info_ok
    THEN Return([w EXCEPT !.stack.ping_slot_info_requested = TRUE], Status("OK"))
    ELSE Return(w, Status("PARAMETER_INVALID"))

remove_ping_slot_info_request(w) == [w EXCEPT !.stack.ping_slot_info_requested = FALSE]

(***************************************************************************)
(* LoRaWANStack: rejoin and MLME                                           *)
(***************************************************************************)
mac_rejoin_max_count == MaxType0   \* get_rejoin_parameters(max_time, max_count)

process_rejoin(w, rejoin_type) ==
    IF get_server_type(w) = "LW1_1"
    THEN LET w1 == mac_rejoin(w) IN
         IF rejoin_type = 0 THEN [w1 EXCEPT !.stack.rejoin_type0_counter = 0] ELSE w1
    ELSE w

\* process_rejoin(type, is_forced = true); forced_sent counts these calls
\* since the last ForceRejoinReq
process_forced_rejoin(w, rejoin_type) ==
    IF get_server_type(w) = "LW1_1"
    THEN [process_rejoin(w, rejoin_type) EXCEPT !.app.forced_sent = @ + 1]
    ELSE w

reset_forced_rejoin(w) ==
    [w EXCEPT !.stack.forced_counter = 0, !.stack.forced_timer = FALSE]

forced_timer_expiry(w) ==
    IF get_server_type(w) = "LW1_1"
    THEN (IF w.stack.forced_counter < w.stack.forced_retry_count
          THEN [process_forced_rejoin(w, w.stack.forced_rejoin_type)
                  EXCEPT !.stack.forced_timer = TRUE]
          ELSE reset_forced_rejoin(w))
    ELSE w

\* the MLME_FORCE_REJOIN branch of mlme_confirm_handler
force_rejoin_confirm(w, rejoin_type, max_retries) ==
    IF rejoin_type <= 2 /\ get_server_type(w) = "LW1_1"
    THEN LET count == IF max_retries # 0 THEN max_retries + 1 ELSE 0
             type == IF rejoin_type = 1 THEN 0 ELSE rejoin_type
             w1 == reset_forced_rejoin(
                      [w EXCEPT !.stack.forced_retry_count = count,
                                !.stack.forced_rejoin_type = type,
                                !.app.forced_sent = 0])
             w2 == process_forced_rejoin(w1, type)
         IN IF count # 0 THEN [w2 EXCEPT !.stack.forced_timer = TRUE] ELSE w2
    ELSE w

process_rejoin_type0(w) ==
    IF get_server_type(w) = "LW1_1" THEN process_rejoin(w, 0) ELSE w

\* poll_rejoin that resets the type-0 counter when the type-1 rejoin is due
poll_rejoin_type1_resets_counter(w, type1_due) ==
    IF HasFlag(w, "REJOIN_IN_PROGRESS") THEN w
    ELSE IF type1_due
    THEN QueueCall(SetFlag([w EXCEPT !.stack.rejoin_type0_counter = 0],
                           "REJOIN_IN_PROGRESS"),
                   "process_rejoin_type1", NoArg)
    ELSE LET w1 == IF w.stack.rejoin_type0_counter >= mac_rejoin_max_count
                   THEN QueueCall(SetFlag([w EXCEPT !.stack.rejoin_type0_counter = 0],
                                          "REJOIN_IN_PROGRESS"),
                                  "process_rejoin_type0", NoArg)
                   ELSE w
         IN [w1 EXCEPT !.stack.rx_payload_in_use = FALSE]

\* type1_due: the type-1 period has elapsed since the last stamp
poll_rejoin(w, type1_due) ==
    IF HasFlag(w, "REJOIN_IN_PROGRESS") THEN w
    ELSE IF type1_due
    THEN QueueCall(SetFlag(w, "REJOIN_IN_PROGRESS"), "process_rejoin_type1", NoArg)
    ELSE LET w1 == IF w.stack.rejoin_type0_counter >= mac_rejoin_max_count
                   THEN QueueCall(SetFlag([w EXCEPT !.stack.rejoin_type0_counter = 0],
                                          "REJOIN_IN_PROGRESS"),
                                  "process_rejoin_type0", NoArg)
                   ELSE w
         IN [w1 EXCEPT !.stack.rx_payload_in_use = FALSE]

mlme_indication_handler(w) ==
    IF AUTOMATIC_UPLINK_MESSAGE
    THEN QueueCall([w EXCEPT !.stack.automatic_uplink_ongoing = TRUE],
                   "send_automatic_uplink_message", NoArg)
    ELSE send_event_to_application(w, "UPLINK_REQUIRED")

mlme_confirm_handler(w, confirm) ==
    CASE confirm = "RESET" -> [w EXCEPT !.stack.reset_ind_requested = FALSE]
      [] confirm = "LINK_CHECK_OK" ->
            IF w.stack.link_check_cb THEN Call(w, "link_check_resp") ELSE w
      [] confirm = "PING_SLOT_INFO" ->
            IF w.stack.ping_slot_info_requested
            THEN send_event_to_application(
                    [w EXCEPT !.stack.ping_slot_info_requested = FALSE],
                    "PING_SLOT_INFO_SYNCHED")
            ELSE w
      [] confirm = "REKEY" -> [w EXCEPT !.stack.rekey_ind_needed = FALSE,
                                        !.stack.rekey_ind_counter = 0]
      [] confirm = "FORCE_REJOIN" ->
            force_rejoin_confirm(w, w.mac.ind.rejoin_type, w.mac.ind.max_retries)
      [] confirm = "BEACON_ACQUISITION_OK" -> send_event_to_application(w, "BEACON_FOUND")
      [] confirm = "BEACON_ACQUISITION_FAIL" ->
            send_event_to_application(w, "BEACON_NOT_FOUND")
      [] confirm \in DeviceModeConfs ->
            send_event_to_application(
               [w EXCEPT !.stack.device_mode_ind_needed = FALSE],
               IF confirm = "DEVICE_MODE_A" <=> get_device_class(w) = "A"
               THEN "SERVER_ACCEPTED_CLASS_IN_USE"
               ELSE "SERVER_DOES_NOT_SUPPORT_CLASS_IN_USE")
      [] confirm = "JOIN_ACCEPT_OK" ->
            state_controller(
                IF get_server_type(w) = "LW1_1"
                THEN [w EXCEPT !.stack.rekey_ind_needed = TRUE,
                               !.stack.rekey_ind_counter = 0]
                ELSE w,
                "CONNECTED", "OK", TRUE)
      [] confirm = "JOIN_ACCEPT_CRYPTO_FAIL" ->
            send_event_to_application([w EXCEPT !.stack.state = "IDLE"], "CRYPTO_ERROR")
      [] confirm = "JOIN_ACCEPT_FAIL" ->
            IF get_server_type(w) = "LW1_1" /\ HasFlag(w, "REJOIN_IN_PROGRESS")
            THEN w
            ELSE state_controller([w EXCEPT !.stack.state = "AWAITING_JOIN_ACCEPT"],
                                  "JOINING", "OK", TRUE)
      [] OTHER -> w

(***************************************************************************)
(* LoRaWANStack: processors for deferred interrupts                        *)
(***************************************************************************)
process_transmission_timeout(w) ==
    LET w1 == ClearFlag(on_radio_tx_timeout(w), "TX_DONE")
        w2 == IF w1.stack.state = "JOINING"
              THEN send_event_to_application([w1 EXCEPT !.stack.state = "IDLE"],
                                             "TX_TIMEOUT")
              ELSE status_check(w1)
    IN state_machine_run_to_completion(w2)

process_transmission(w) ==
    LET w1 == make_tx_metadata_available(w)
        w2 == IF w1.stack.state = "JOINING"
              THEN [w1 EXCEPT !.stack.state = "AWAITING_JOIN_ACCEPT"]
              ELSE IF w1.stack.state = "SENDING" /\ w1.mac.req_type = "CONFIRMED"
              THEN [w1 EXCEPT !.stack.state = "AWAITING_ACK"]
              ELSE w1
        w3 == on_radio_tx_done(w2)
    IN IF get_server_type(w3) = "LW1_1" /\ w3.stack.device_mode_ind_ongoing
       THEN send_event_to_application(
               Return(mac_set_device_class(
                         [w3 EXCEPT !.stack.device_mode_ind_ongoing = FALSE],
                         w3.stack.new_class_type), w3.ret),
               "CLASS_CHANGED")
       ELSE w3

QosRepeat_level_compared_backwards(w) ==
    /\ get_QOS_level(w) < LORAWAN_DEFAULT_QOS
    /\ get_prev_QOS_level(w) = get_QOS_level(w)

QosRepeat(w) ==
    /\ get_QOS_level(w) > LORAWAN_DEFAULT_QOS
    /\ get_prev_QOS_level(w) = get_QOS_level(w)

post_process_tx_with_reception(w) ==
    IF w.mac.req_type = "CONFIRMED"
    THEN (IF w.mac.ind.ack
          THEN status_check(make_tx_metadata_available(post_process_mcps_req(
                  ClearFlag(SetFlag(w, "TX_DONE"), "RETRY_EXHAUSTED"))))
          ELSE IF ~continue_sending_process(w) /\ get_current_slot(w) # "RX1"
          THEN status_check(make_tx_metadata_available(post_process_mcps_req(
                  SetFlag(ClearFlag(w, "TX_DONE"), "RETRY_EXHAUSTED"))))
          ELSE w)
    ELSE IF QosRepeat(w) /\ w.stack.qos_cnt < get_QOS_level(w)
    THEN [QueueCall(ClearFlag(w, "TX_DONE"), "state_controller_scheduling", NoArg)
            EXCEPT !.stack.qos_cnt = @ + 1]
    ELSE status_check(make_tx_metadata_available(
            SetFlag(post_process_mcps_req(w), "TX_DONE")))

post_process_tx_no_reception(w) ==
    IF HasFlag(w, "REJOIN_IN_PROGRESS")
    THEN state_machine_run_to_completion(ClearFlag(w, "REJOIN_IN_PROGRESS"))
    ELSE IF w.mac.req_type = "CONFIRMED" /\ continue_sending_process(w)
    THEN ClearFlag(ClearFlag(w, "TX_DONE"), "RETRY_EXHAUSTED")
    ELSE
      LET w1 == IF w.mac.req_type = "CONFIRMED"
                THEN SetFlag(ClearFlag(w, "TX_DONE"), "RETRY_EXHAUSTED")
                ELSE SetFlag(w, "TX_DONE")
      IN IF w.mac.req_type # "CONFIRMED" /\ QosRepeat(w)
            /\ w.stack.qos_cnt < get_QOS_level(w)
         THEN state_machine_run_to_completion(
                 [QueueCall(w1, "state_controller_scheduling", NoArg)
                    EXCEPT !.stack.qos_cnt = @ + 1])
         ELSE state_machine_run_to_completion(
                 status_check(make_tx_metadata_available(post_process_mcps_req(w1))))

handle_scheduling_failure(w) ==
    state_machine_run_to_completion(status_check(w))

\* the RX1 / RX2 / Class C branch of process_reception
process_reception_window(w, type1_due) ==
    LET w1 == post_process_tx_with_reception(w)
        w2 == IF w1.mac.ind_pending
              THEN status_check(SetFlag(post_process_mcps_ind(w1), "MSG_RECVD"))
              ELSE w1
        w3 == IF HasFlag(w2, "TX_DONE") THEN state_machine_run_to_completion(w2)
              ELSE w2
        w4 == IF w3.mac.mlme_pending /\ ~w3.stack.automatic_uplink_ongoing
              THEN mlme_indication_handler(post_process_mlme_ind(w3))
              ELSE w3
    IN IF LORA_VERSION_1_1(w) THEN poll_rejoin(w4, type1_due) ELSE w4

\* core_util_atomic_flag_clear(&_rx_payload_in_use)
release_rx_payload(w) == [drop_mcps_ind(w) EXCEPT !.stack.rx_payload_in_use = FALSE]

\* process_reception_joined without the early return of a rejoin in progress
process_reception_joined_no_rejoin_guard(w, rx_slot, type1_due) ==
    release_rx_payload(process_reception_window(make_rx_metadata_available(w),
                                                type1_due))

\* process_reception once MacOps has decoded the frame of a joined device
process_reception_joined(w, rx_slot, type1_due) ==
    IF HasFlag(w, "REJOIN_IN_PROGRESS")
    THEN release_rx_payload(ClearFlag(w, "REJOIN_IN_PROGRESS"))
    ELSE LET w4 == make_rx_metadata_available(w) IN
         CASE rx_slot \in {"RX1", "RX2", "CLASS_C"} ->
                 release_rx_payload(process_reception_window(w4, type1_due))
           [] rx_slot = "BEACON" -> release_rx_payload(w4)
           [] rx_slot \in {"UNICAST_PING_SLOT", "MULTICAST_PING_SLOT"} ->
                 release_rx_payload(status_check(SetFlag(w4, "MSG_RECVD")))

process_reception(w, frame, type1_due) ==
    LET w1 == [w EXCEPT !.stack.state = "RECEIVING",
                        !.stack.flags = @ \ {"MSG_RECVD", "TX_DONE", "RETRY_EXHAUSTED"},
                        !.stack.rejoin_type0_counter = Min(@ + 1, MaxType0)]
        joined == nwk_joined(w1)
        rx_slot == get_current_slot(w1)
        w2 == on_radio_rx_done(w1, frame)
        w3 == IF frame.confirm = "DEVICE_TIME_ANS"
              THEN handle_device_time_sync_event(w2, frame.payload[1])
              ELSE IF frame.confirm # "NONE" THEN mlme_confirm_handler(w2, frame.confirm)
              ELSE w2
    IN IF ~joined THEN release_rx_payload(w3)
       ELSE process_reception_joined(w3, rx_slot, type1_due)

\* process_reception up to its last statement, the
\* core_util_atomic_flag_clear(&_rx_payload_in_use) that every path ends with
process_reception_before_release(w, frame, type1_due) ==
    LET w1 == [w EXCEPT !.stack.state = "RECEIVING",
                        !.stack.flags = @ \ {"MSG_RECVD", "TX_DONE", "RETRY_EXHAUSTED"},
                        !.stack.rejoin_type0_counter = Min(@ + 1, MaxType0)]
        joined == nwk_joined(w1)
        rx_slot == get_current_slot(w1)
        w2 == on_radio_rx_done(w1, frame)
        w3 == IF frame.confirm = "DEVICE_TIME_ANS"
              THEN handle_device_time_sync_event(w2, frame.payload[1])
              ELSE IF frame.confirm # "NONE" THEN mlme_confirm_handler(w2, frame.confirm)
              ELSE w2
    IN IF ~joined THEN w3
       ELSE IF HasFlag(w3, "REJOIN_IN_PROGRESS") THEN ClearFlag(w3, "REJOIN_IN_PROGRESS")
       ELSE LET w4 == make_rx_metadata_available(w3) IN
            CASE rx_slot \in {"RX1", "RX2", "CLASS_C"} ->
                    process_reception_window(w4, type1_due)
              [] rx_slot = "BEACON" -> w4
              [] rx_slot \in {"UNICAST_PING_SLOT", "MULTICAST_PING_SLOT"} ->
                    status_check(SetFlag(w4, "MSG_RECVD"))

process_reception_timeout(w, is_timeout, type1_due) ==
    LET w1 == [w EXCEPT !.stack.rejoin_type0_counter = Min(@ + 1, MaxType0)]
        rx_slot == get_current_slot(w1)
        w2 == on_radio_rx_timeout(w1)
    IN IF rx_slot = "RX2" /\ ~nwk_joined(w2)
       THEN state_controller(w2, "JOINING", "OK", TRUE)
       ELSE IF rx_slot = "RX2"
       THEN LET w3 == state_machine_run_to_completion(
                         status_check(post_process_tx_no_reception(w2)))
            IN IF LORA_VERSION_1_1(w) THEN poll_rejoin(w3, type1_due) ELSE w3
       ELSE w2

send_automatic_uplink_message(w, port, sched) ==
    LET w1 == handle_tx(w, port, TRUE, 0, MSG_CONFIRMED_FLAG, TRUE, TRUE, sched) IN
    IF w1.ret = Status("WOULD_BLOCK")
    THEN [w1 EXCEPT !.stack.automatic_uplink_ongoing = FALSE]
    ELSE IF w1.ret.st # "LEN"
    THEN send_event_to_application(w1, "AUTOMATIC_UPLINK_ERROR")
    ELSE [w1 EXCEPT !.app.owner = "AUTO", !.app.term = "NONE"]


(***************************************************************************)
(* Class B: beacon acquisition and tracking                                *)
(***************************************************************************)
BeaconStatuses == {"ACQUISITION_FAILED", "ACQUISITION_SUCCESS", "LOCK", "MISS"}

\* the time since the last received beacon, as the unsigned subtraction of
\* two clock readings gives it
no_beacon_rx_time(w) ==
    (get_current_time(w) - w.stack.last_beacon_rx_time + ClockModulus) % ClockModulus

process_beacon_event_lock_keeps_time(w, status) ==
    CASE status = "ACQUISITION_FAILED" -> mlme_confirm_handler(w, "BEACON_ACQUISITION_FAIL")
      [] status = "ACQUISITION_SUCCESS" ->
            mlme_confirm_handler(
               [w EXCEPT !.stack.last_beacon_rx_time = get_current_time(w)],
               "BEACON_ACQUISITION_OK")
      [] status = "LOCK" -> send_event_to_application(w, "BEACON_LOCK")
      [] status = "MISS" ->
            LET w1 == send_event_to_application(w, "BEACON_MISS") IN
            IF get_device_class(w1) = "B"
               /\ no_beacon_rx_time(w1) \div TicksPerSecond >= BeaconlessPeriod
            THEN send_event_to_application(
                    Return(mac_set_device_class(w1, "A"), w1.ret),
                    "SWITCH_CLASS_B_TO_A")
            ELSE w1

process_beacon_event(w, status) ==
    CASE status = "ACQUISITION_FAILED" -> mlme_confirm_handler(w, "BEACON_ACQUISITION_FAIL")
      [] status = "ACQUISITION_SUCCESS" ->
            mlme_confirm_handler(
               [w EXCEPT !.stack.last_beacon_rx_time = get_current_time(w)],
               "BEACON_ACQUISITION_OK")
      [] status = "LOCK" ->
            send_event_to_application(
               [w EXCEPT !.stack.last_beacon_rx_time = get_current_time(w)],
               "BEACON_LOCK")
      [] status = "MISS" ->
            LET w1 == send_event_to_application(w, "BEACON_MISS") IN
            IF get_device_class(w1) = "B"
               /\ no_beacon_rx_time(w1) \div TicksPerSecond >= BeaconlessPeriod
            THEN send_event_to_application(
                    Return(mac_set_device_class(w1, "A"), w1.ret),
                    "SWITCH_CLASS_B_TO_A")
            ELSE w1

enable_beacon_acquisition(w) == mac_enable_beacon_acquisition(w)

(***************************************************************************)
(* GPS time and the system clock (times in seconds, GPS time in ms)        *)
(***************************************************************************)
\* time(NULL) and set_time() of the platform
time(w) == w.app.sys_time
set_time(w, t) == [w EXCEPT !.app.sys_time = t]

set_system_time_utc(w, tai_utc_diff) ==
    LET u1 == time(w) + UNIX_GPS_EPOCH_DIFF
        u2 == u1 + (tai_utc_diff - 19)
        cur_gps_time == get_current_gps_time(w)
        gps_seconds == cur_gps_time \div 1000
        gps_millis == cur_gps_time % 1000
        rounded == IF gps_millis >= 500 THEN gps_seconds + 1 ELSE gps_seconds
    IN IF cur_gps_time = 0 THEN Return(w, Status("SERVICE_UNKNOWN"))
       ELSE Return(set_time(w, u2 + rounded), Status("OK"))

(***************************************************************************)
(* Initial state: LoRaWANStack::LoRaWANStack()                             *)
(***************************************************************************)
ADR_ACK_LIMIT == 1     \* get_current_adr_ack_limit(), kept small

ServerTypes == {"LW1_0_2", "LW1_1"}

InitStack ==
    [state |-> "NOT_INITIALIZED", flags |-> {}, active |-> FALSE,
     num_retry |-> 1, qos_cnt |-> 1, app_port |-> INVALID_PORT,
     link_check_requested |-> FALSE, device_time_requested |-> FALSE,
     ping_slot_info_requested |-> FALSE,
     reset_ind_requested |-> FALSE, rekey_ind_needed |-> FALSE,
     rekey_ind_counter |-> 0, device_mode_ind_needed |-> FALSE,
     device_mode_ind_ongoing |-> FALSE, new_class_type |-> "A",
     automatic_uplink_ongoing |-> FALSE, rx_payload_in_use |-> FALSE,
     tx_metadata_stale |-> TRUE, rx_metadata_stale |-> TRUE,
     rejoin_type0_counter |-> 0, events_cb |-> FALSE, link_check_cb |-> FALSE,
     tx_timestamp |-> 0,
     uplink_counter |-> 0, downlink_counter |-> 0, last_beacon_rx_time |-> 0,
     forced_retry_count |-> 0, forced_rejoin_type |-> 0, forced_counter |-> 0,
     forced_timer |-> FALSE,
     rx_msg |-> [buffer |-> "NULL", buffer_size |-> 0, port |-> 0,
                 type |-> "UNCONFIRMED", receive_ready |-> FALSE,
                 prev_read_size |-> 0, pending_size |-> 0]]

InitMac(server, qos) ==
    [lora_version |-> server, tx_ongoing |-> FALSE, joined |-> FALSE, device_class |-> "A",
     server_type |-> server, phase |-> "OFF", rx_slot |-> "RX1",
     req_type |-> "UNCONFIRMED", status |-> "OK", retries_left |-> 0,
     join_retries_left |-> 0, qos_level |-> qos, prev_qos_level |-> qos,
     ind |-> NoFrame, rx_buffer |-> <<>>, ind_pending |-> FALSE, mlme_pending |-> FALSE,
     txkind |-> "NONE", adr_ack_limit |-> ADR_ACK_LIMIT,
     ul_frame_counter |-> 0, dl_frame_counter |-> 0,
     msg |-> [len |-> 0, type |-> "UNCONFIRMED"], mode_ind |-> "NONE",
     now |-> 0, beacon |-> "NONE", gps_time |-> 0, mutex |-> "FREE"]

InitApp ==
    [op |-> "constructor", ret |-> Status("OK"), posted |-> <<>>, calls |-> {},
     copied |-> <<>>, term |-> "NONE", owner |-> "NONE",
     original |-> <<>>, delivered |-> <<>>, clean |-> FALSE,
     pre |-> [tx_ongoing |-> FALSE, rejoin |-> FALSE,
             state |-> "NOT_INITIALIZED", flags |-> {},
             tx_stale |-> TRUE, rx_stale |-> TRUE, class |-> "A"],
     tx_reads |-> 1, tx_calls |-> 0, elapsed |-> 0, forced_sent |-> 0,
     sys_time |-> 0, tai_utc_diff |-> 0, running |-> NoItem,
     out |-> [port |-> 0, flags |-> 0]]

\* server: the LoRaWAN version of the network server, which is also the
\* version the stack is built for; qos: the QoS level (NbTrans) the network
\* has set
InitWith(server, qos) ==
    /\ stack = InitStack
    /\ mac = InitMac(server, qos)
    /\ queue = <<>>
    /\ app = InitApp

Init == InitWith("LW1_0_2", LORAWAN_DEFAULT_QOS)

(***************************************************************************)
(* Facade calls of the application (LoRaWANInterface)                      *)
(***************************************************************************)
SchedResults == {"OK", "LENGTH_ERROR"}

\* init_ok: MacOps initialize() succeeds
Initialize(queue_null, init_ok) ==
    Commit(initialize_mac_layer(Begin("initialize"), queue_null, init_ok))

AddAppCallbacks ==
    \E events_null \in BOOLEAN :
        Commit(set_lora_callbacks(Begin("add_app_callbacks"), events_null, TRUE))

Connect(ctype) == Commit(connect(Begin("connect"), ctype))

AddLinkCheckRequest == Commit(set_link_check_request(Begin("add_link_check_request")))

RemoveLinkCheckRequest ==
    Commit(Return(remove_link_check_request(Begin("remove_link_check_request")),
                  Status("OK")))

AddDeviceTimeRequest == Commit(set_device_time_request(Begin("add_device_time_request")))

RemoveDeviceTimeRequest ==
    Commit(Return(remove_device_time_request(Begin("remove_device_time_request")),
                  Status("OK")))

AddPingSlotInfoRequest ==
    \E set_ping_slot_info_ok \in BOOLEAN :
        Commit(add_ping_slot_info_request(Begin("add_ping_slot_info_request"),
                                          set_ping_slot_info_ok))

RemovePingSlotInfoRequest ==
    Commit(Return(remove_ping_slot_info_request(Begin("remove_ping_slot_info_request")),
                  Status("OK")))

Disconnect == Commit(shutdown(Begin("disconnect")))

\* a cancelled uplink is owned by nobody
CancelSending ==
    LET w == stop_sending(Begin("cancel_sending")) IN
    Commit(IF w.ret = Status("OK") THEN [w EXCEPT !.app.owner = "CANCELLED"] ELSE w)

\* tx_reads counts the successful reads since the radio last completed a
\* transmission (1 at construction: there is nothing to read; 2 stands for
\* two or more)
GetTxMetadata ==
    LET w == acquire_tx_metadata(Begin("get_tx_metadata")) IN
    Commit(IF w.ret = Status("OK")
           THEN [w EXCEPT !.app.tx_reads = IF @ = 0 THEN 1 ELSE 2]
           ELSE w)

GetRxMetadata == Commit(acquire_rx_metadata(Begin("get_rx_metadata")))

SetDeviceClass(c) == Commit(set_device_class(Begin("set_device_class"), c))

SetCurrentGpsTime(gps_time) ==
    Commit(set_current_gps_time(Begin("set_current_gps_time"), gps_time))

SetSystemTimeUtc(tai_utc_diff) ==
    Commit(set_system_time_utc(
              [Begin("set_system_time_utc") EXCEPT !.app.tai_utc_diff = tai_utc_diff],
              tai_utc_diff))

\* an accepted send makes the application the owner of the uplink in flight;
\* tx_calls counts the calls of send_ongoing_tx made for that uplink (one more
\* than the QoS level stands for any larger number)
Send(port, data_null, length, flags) ==
    \E sched \in SchedResults :
        LET w == handle_tx(Begin("send"), port, data_null, length, flags,
                           FALSE, FALSE, sched)
        IN Commit(IF w.ret.st = "LEN"
                  THEN [w EXCEPT !.app.term = "NONE", !.app.owner = "APP",
                                 !.app.tx_calls = 1]
                  ELSE [w EXCEPT !.app.tx_calls = app.tx_calls])

\* receive(port, data, length, flags) validates port and flags,
\* receive(data, length, port, flags) reports them
Receive(port, data_null, length, flags, validate) ==
    Commit(handle_rx(Begin("receive"), data_null, length, port, flags, validate))


(***************************************************************************)
(* The radio and MacOps timers                                             *)
(***************************************************************************)
\* the backoff timer fires and MacOps arms the radio
BackoffExpires ==
    /\ mac.phase = "BACKOFF"
    /\ mac' = [mac EXCEPT !.phase = "TX"]
    /\ app' = [Begin("backoff_expires").app EXCEPT !.ret = Status("OK")]
    /\ UNCHANGED <<stack, queue>>

\* MacOps fails to schedule the deferred transmission and reports it
SchedulingFailure ==
    /\ mac.phase = "BACKOFF" /\ mac.txkind = "DATA"
    /\ LET w == Begin("handle_scheduling_failure") IN
       Commit(handle_scheduling_failure(
                 [w EXCEPT !.mac.phase = RestPhase(mac.device_class),
                           !.mac.txkind = "NONE",
                           !.mac.status = "TX_DR_PAYLOAD_SIZE_ERROR"]))

\* the ack timeout of a confirmed uplink elapses with retries left: MacOps
\* retransmits
AckTimeoutRetransmit ==
    /\ mac.txkind = "DATA" /\ mac.tx_ongoing /\ mac.req_type = "CONFIRMED"
    /\ mac.phase \in {"OFF", "RXC"} /\ mac.retries_left > 0
    /\ mac' = [mac EXCEPT !.phase = "BACKOFF", !.retries_left = @ - 1]
    /\ app' = [Begin("ack_timeout").app EXCEPT !.ret = Status("OK")]
    /\ UNCHANGED <<stack, queue>>

\* Class C: the RX2-closure / ack-expiry timer of the uplink in flight fires
\* and MacOps calls the callback given to set_device_class
ClassCExpiry ==
    /\ mac.device_class = "C" /\ mac.phase = "RXC"
    /\ mac.txkind = "DATA" /\ mac.tx_ongoing
    /\ mac.req_type = "CONFIRMED" => mac.retries_left = 0
    /\ Commit(post_process_tx_no_reception(
                 [Begin("class_c_expiry") EXCEPT !.mac.txkind = "NONE"]))

TxDoneIsr ==
    /\ mac.phase = "TX" /\ Len(queue) < MaxQueue
    /\ Commit(QueueCall([Begin("tx_interrupt_handler")
                           EXCEPT !.mac.phase = "IRQ", !.app.tx_reads = 0,
                                  !.stack.tx_timestamp = get_current_time(World)],
                        "process_transmission", NoArg))

TxTimeoutIsr ==
    /\ mac.phase = "TX" /\ Len(queue) < MaxQueue
    /\ Commit(QueueCall([Begin("tx_timeout_interrupt_handler")
                           EXCEPT !.mac.phase = "IRQ"],
                        "process_transmission_timeout", NoArg))

\* frames the network may send in the present window
FramesAt(m) ==
    IF m.txkind = "JOIN"
    THEN {ConfirmFrame(r) : r \in JoinResults} \cup {NoFrame}
    ELSE IF m.txkind = "REJOIN"
    THEN {ConfirmFrame(r) : r \in JoinResults}
         \cup {NoFrame, DataFrame(1, "UNCONFIRMED", <<7>>)}
    ELSE {NoFrame, AckFrame, DataFrame(1, "UNCONFIRMED", <<7>>)}
         \cup (IF m.mode_ind = "SENT"
               THEN {ConfirmFrame(c) : c \in DeviceModeConfs} ELSE {})

RxPhases == {"RX1", "RX2", "RXC"}

PhaseAfterIsr(phase) == IF phase = "RXC" THEN "RXC" ELSE "IRQ"

rx_interrupt_handler(w, frame) ==
    IF w.stack.rx_payload_in_use THEN w
    ELSE QueueCall([w EXCEPT !.stack.rx_payload_in_use = TRUE,
                             !.mac.phase = PhaseAfterIsr(@)],
                   "process_reception", [NoArg EXCEPT !.frame = frame])

RxDoneIsr(frame) ==
    /\ mac.phase \in RxPhases /\ Len(queue) < MaxQueue
    /\ Commit(rx_interrupt_handler(
                 [Begin("rx_interrupt_handler") EXCEPT !.mac.rx_slot = SlotOf(mac.phase)],
                 frame))

RxTimeoutIsr ==
    /\ mac.phase \in {"RX1", "RX2"} /\ Len(queue) < MaxQueue
    /\ Commit(QueueCall([Begin("rx_timeout_interrupt_handler")
                           EXCEPT !.mac.rx_slot = SlotOf(mac.phase),
                                  !.mac.phase = "IRQ"],
                        "process_reception_timeout", [NoArg EXCEPT !.flag = TRUE]))

RxErrorIsr ==
    /\ mac.phase \in RxPhases /\ Len(queue) < MaxQueue
    /\ Commit(QueueCall([Begin("rx_error_interrupt_handler")
                           EXCEPT !.mac.rx_slot = SlotOf(mac.phase),
                                  !.mac.phase = PhaseAfterIsr(@)],
                        "process_reception_timeout", [NoArg EXCEPT !.flag = FALSE]))

(***************************************************************************)
(* The event queue runs the oldest deferred call                           *)
(***************************************************************************)
RunOtherHandler(w, item, sched, type1_due) ==
    CASE item.h = "process_transmission" -> process_transmission(w)
      [] item.h = "process_transmission_timeout" -> process_transmission_timeout(w)
      [] item.h = "process_reception_timeout" ->
            process_reception_timeout(w, item.flag, type1_due)
      [] item.h = "state_controller_scheduling" ->
            state_controller(w, "SCHEDULING", sched, TRUE)
      [] item.h = "send_automatic_uplink_message" ->
            send_automatic_uplink_message(w, item.port, sched)
      [] item.h = "process_rejoin_type1" -> process_rejoin(w, 1)
      [] item.h = "process_rejoin_type0" -> process_rejoin_type0(w)

RunHandler(w, item, sched, type1_due) ==
    IF item.h = "process_reception" THEN process_reception(w, item.frame, type1_due)
    ELSE RunOtherHandler(w, item, sched, type1_due)

Dispatch ==
    /\ queue # <<>>
    /\ \E sched \in SchedResults, type1_due \in BOOLEAN :
          LET item == Head(queue)
              w == [Begin(item.h) EXCEPT !.queue = Tail(@)]
          IN Commit(RunHandler(w, item, sched, type1_due))

\* the same, with a MacOps that accepts every transmission handed to it
DispatchScheduled ==
    /\ queue # <<>>
    /\ \E type1_due \in BOOLEAN :
          LET item == Head(queue)
              w == [Begin(item.h) EXCEPT !.queue = Tail(@)]
          IN Commit(RunHandler(w, item, "OK", type1_due))

\* the same, and the period of the type-1 rejoin has not elapsed
DispatchNoType1 ==
    /\ queue # <<>>
    /\ LET item == Head(queue)
           w == [Begin(item.h) EXCEPT !.queue = Tail(@)]
       IN Commit(RunHandler(w, item, "OK", FALSE))

(***************************************************************************)
(* Specification of the transmit / receive pipeline of an activated        *)
(* device.  The application follows the documented bring-up order          *)
(* (initialize, add_app_callbacks, connect), activates by personalisation  *)
(* and then sends, cancels and switches class at any time.                 *)
(***************************************************************************)
SendFlags == {MSG_UNCONFIRMED_FLAG, MSG_CONFIRMED_FLAG}
SendLength == 2

AppInitialize ==
    /\ stack.state = "NOT_INITIALIZED"
    /\ \E queue_null \in BOOLEAN : Initialize(queue_null, TRUE)

AppAddCallbacks == ~stack.events_cb /\ AddAppCallbacks

AppConnectAbp ==
    /\ stack.events_cb \/ stack.state = "NOT_INITIALIZED"
    /\ "CONNECTED" \notin stack.flags /\ stack.state # "SHUTDOWN"
    /\ Connect("ABP")

AppSend == \E flags \in SendFlags : Send(1, FALSE, SendLength, flags)

AppSetDeviceClass == \E c \in {"A", "C"} : c # mac.device_class /\ SetDeviceClass(c)

RadioRxDone == \E frame \in FramesAt(mac) : RxDoneIsr(frame)

Next ==
    \/ AppInitialize
    \/ AppAddCallbacks
    \/ AppConnectAbp
    \/ AppSend
    \/ AppSetDeviceClass
    \/ BackoffExpires
    \/ SchedulingFailure
    \/ AckTimeoutRetransmit
    \/ ClassCExpiry
    \/ TxDoneIsr
    \/ TxTimeoutIsr
    \/ RadioRxDone
    \/ RxTimeoutIsr
    \/ Dispatch

Spec == Init /\ [][Next]_vars

(***************************************************************************)
(* Specification of the rejoin cycle: a Class A device on a LoRaWAN 1.1    *)
(* network server.                                                         *)
(***************************************************************************)
InitRejoin == InitWith("LW1_1", LORAWAN_DEFAULT_QOS)

AppSendUnconfirmed == Send(1, FALSE, SendLength, MSG_UNCONFIRMED_FLAG)

NextRejoin ==
    \/ AppInitialize
    \/ AppAddCallbacks
    \/ AppConnectAbp
    \/ AppSendUnconfirmed
    \/ CancelSending
    \/ BackoffExpires
    \/ SchedulingFailure
    \/ TxDoneIsr
    \/ TxTimeoutIsr
    \/ RadioRxDone
    \/ RxTimeoutIsr
    \/ RxErrorIsr
    \/ Dispatch

SpecRejoin == InitRejoin /\ [][NextRejoin]_vars

(***************************************************************************)
(* Specification of the receive path: a Class C device that listens and    *)
(* an application that reads with receive() and may disconnect.            *)
(***************************************************************************)
MaxPayload == 3        \* longest downlink payload

\* the payload of n bytes sent to a port: every byte names its port and offset
Bytes(port, n) == [i \in 1..n |-> 10 * port + i]

RxPorts == {1, 2}
RxType(port) == IF port = 1 THEN "UNCONFIRMED" ELSE "MULTICAST"

RxFrames ==
    {DataFrame(port, RxType(port), Bytes(port, n)) :
        port \in RxPorts, n \in 0..MaxPayload}
    \cup {DataFrame(COMPLIANCE_TESTING_PORT, "UNCONFIRMED", Bytes(3, 1))}

RxFlags == {MSG_UNCONFIRMED_FLAG, MSG_MULTICAST_FLAG}

AppListen ==
    /\ mac.device_class = "A" /\ "CONNECTED" \in stack.flags
    /\ SetDeviceClass("C")

\* the application disconnects between two radio events
AppDisconnect == queue = <<>> /\ Disconnect

RadioRxData == \E frame \in RxFrames : RxDoneIsr(frame)

\* the calls the application makes: the validating form with every port and
\* flag, the reporting form, a null buffer and an empty buffer
RxCall(port, data_null, length, flags, validate) ==
    [port |-> port, data_null |-> data_null, length |-> length, flags |-> flags,
     validate |-> validate]

RxCalls ==
    {RxCall(port, FALSE, length, flags, TRUE) :
        port \in RxPorts, length \in 1..MaxRxLen, flags \in RxFlags}
    \cup {RxCall(0, FALSE, length, 0, FALSE) : length \in 1..MaxRxLen}
    \cup {RxCall(1, TRUE, 1, MSG_UNCONFIRMED_FLAG, v) : v \in BOOLEAN}
    \cup {RxCall(1, FALSE, 0, MSG_UNCONFIRMED_FLAG, v) : v \in BOOLEAN}

AppReceive ==
    \E c \in RxCalls : Receive(c.port, c.data_null, c.length, c.flags, c.validate)

NextRx ==
    \/ AppInitialize
    \/ AppAddCallbacks
    \/ AppConnectAbp
    \/ AppListen
    \/ RadioRxData
    \/ Dispatch
    \/ AppReceive
    \/ AppDisconnect

SpecRx == Init /\ [][NextRx]_vars

(***************************************************************************)
(* Specification of one Class A device whose radio reports an outcome for  *)
(* every transmission and receive window, whose MAC timers fire and whose  *)
(* event queue runs every posted handler.                                  *)
(***************************************************************************)
NextLive ==
    \/ AppInitialize
    \/ AppAddCallbacks
    \/ AppConnectAbp
    \/ AppSend
    \/ BackoffExpires
    \/ SchedulingFailure
    \/ AckTimeoutRetransmit
    \/ TxDoneIsr
    \/ TxTimeoutIsr
    \/ RadioRxDone
    \/ RxTimeoutIsr
    \/ Dispatch

SpecLive ==
    /\ Init
    /\ [][NextLive]_vars
    /\ WF_vars(BackoffExpires \/ SchedulingFailure)
    /\ WF_vars(AckTimeoutRetransmit)
    /\ WF_vars(TxDoneIsr \/ TxTimeoutIsr)
    /\ WF_vars(RadioRxDone \/ RxTimeoutIsr)
    /\ WF_vars(Dispatch)

(***************************************************************************)
(* Specification of the session life cycle: the application initializes,   *)
(* connects over the air or by personalisation and disconnects in any      *)
(* order and at any time, and may initialize again after a disconnect.     *)
(***************************************************************************)
ConnectTypes == {"DEFAULT", "OTAA", "ABP", "OTHER"}

AppConnect == \E ctype \in ConnectTypes : Connect(ctype)

AppReinitialize == stack.state = "SHUTDOWN" /\ Initialize(FALSE, TRUE)

NextSession ==
    \/ AppInitialize
    \/ AppReinitialize
    \/ AppAddCallbacks
    \/ AppConnect
    \/ Disconnect
    \/ BackoffExpires
    \/ TxDoneIsr
    \/ TxTimeoutIsr
    \/ RadioRxDone
    \/ RxTimeoutIsr
    \/ Dispatch

SpecSession == Init /\ [][NextSession]_vars

(***************************************************************************)
(* Specification of the over-the-air join of a Class A device: the radio   *)
(* reports an outcome for every transmission and receive window, MacOps'   *)
(* backoff timer fires and the event queue runs every posted handler.      *)
(***************************************************************************)
AppConnectOtaa ==
    /\ stack.events_cb \/ stack.state = "NOT_INITIALIZED"
    /\ Connect("OTAA")

NextJoin ==
    \/ AppInitialize
    \/ AppAddCallbacks
    \/ AppConnectOtaa
    \/ BackoffExpires
    \/ TxDoneIsr
    \/ TxTimeoutIsr
    \/ RadioRxDone
    \/ RxTimeoutIsr
    \/ RxErrorIsr
    \/ Dispatch

SpecJoin ==
    /\ Init
    /\ [][NextJoin]_vars
    /\ WF_vars(BackoffExpires)
    /\ WF_vars(TxDoneIsr \/ TxTimeoutIsr)
    /\ WF_vars(RadioRxDone \/ RxTimeoutIsr \/ RxErrorIsr)
    /\ WF_vars(Dispatch)

(***************************************************************************)
(* Specification of the application port: a device activated by            *)
(* personalisation whose application sends to every port a uint8_t can     *)
(* name and cancels the uplink before the radio is armed.                  *)
(***************************************************************************)
MaxPort == 255         \* the largest uint8_t

Ports == 0..MaxPort

AppSendAnyPort ==
    \E port \in Ports : Send(port, FALSE, SendLength, MSG_UNCONFIRMED_FLAG)

NextPort ==
    \/ AppInitialize
    \/ AppAddCallbacks
    \/ AppConnectAbp
    \/ AppSendAnyPort
    \/ CancelSending

SpecPort == Init /\ [][NextPort]_vars

(***************************************************************************)
(* Specification of the metadata records: a Class A device activated by    *)
(* personalisation sends unconfirmed uplinks, receives downlinks and reads *)
(* the TX and RX metadata at any time.                                     *)
(***************************************************************************)
NextMeta ==
    \/ AppInitialize
    \/ AppAddCallbacks
    \/ AppConnectAbp
    \/ AppSendUnconfirmed
    \/ GetTxMetadata
    \/ GetRxMetadata
    \/ BackoffExpires
    \/ TxDoneIsr
    \/ RadioRxDone
    \/ RxTimeoutIsr
    \/ Dispatch

SpecMeta == Init /\ [][NextMeta]_vars

(***************************************************************************)
(* Specification of the cancellation: a Class A device activated by        *)
(* personalisation sends confirmed and unconfirmed uplinks and cancels     *)
(* at any time.                                                            *)
(***************************************************************************)
NextCancel ==
    \/ AppInitialize
    \/ AppAddCallbacks
    \/ AppConnectAbp
    \/ AppSend
    \/ CancelSending
    \/ BackoffExpires
    \/ SchedulingFailure
    \/ AckTimeoutRetransmit
    \/ TxDoneIsr
    \/ TxTimeoutIsr
    \/ RadioRxDone
    \/ RxTimeoutIsr
    \/ Dispatch

SpecCancel == Init /\ [][NextCancel]_vars

(***************************************************************************)
(* Specification of the QoS repetition: the network has set a QoS level    *)
(* above the default, MacOps accepts every repetition, the radio completes *)
(* every transmission and every uplink ends by a frame received in RX1 or  *)
(* RX2 or by the RX2 timeout.                                              *)
(***************************************************************************)
QosLevel == 2          \* the QoS level (NbTrans) set by the network

InitQos == InitWith("LW1_0_2", QosLevel)

NextQos ==
    \/ AppInitialize
    \/ AppAddCallbacks
    \/ AppConnectAbp
    \/ AppSendUnconfirmed
    \/ BackoffExpires
    \/ TxDoneIsr
    \/ RadioRxDone
    \/ RxTimeoutIsr
    \/ DispatchScheduled

SpecQos ==
    /\ InitQos
    /\ [][NextQos]_vars
    /\ WF_vars(BackoffExpires)
    /\ WF_vars(TxDoneIsr)
    /\ WF_vars(RadioRxDone \/ RxTimeoutIsr)
    /\ WF_vars(DispatchScheduled)

(***************************************************************************)
(* Specification of the class change on a LoRaWAN 1.1 server: the          *)
(* application asks for Class A or Class C at any time, uplinks carry the  *)
(* DeviceModeInd and the network answers it with a DeviceModeConf.         *)
(***************************************************************************)
NextClass ==
    \/ AppInitialize
    \/ AppAddCallbacks
    \/ AppConnectAbp
    \/ AppSendUnconfirmed
    \/ AppSetDeviceClass
    \/ BackoffExpires
    \/ ClassCExpiry
    \/ TxDoneIsr
    \/ RadioRxDone
    \/ RxTimeoutIsr
    \/ DispatchNoType1

SpecClass == InitRejoin /\ [][NextClass]_vars

(***************************************************************************)
(* Specification of Class B beacon tracking: the clock advances, the       *)
(* application acquires the beacon and asks for Class B, and MacOps        *)
(* reports every beacon slot as received (LOCK) or missed (MISS).          *)
(***************************************************************************)
\* the clock is let run until one second past the beacon-less period
MaxElapsed == (BeaconlessPeriod + 1) * TicksPerSecond

Tick ==
    /\ app.elapsed < MaxElapsed
    /\ mac' = [mac EXCEPT !.now = (@ + 1) % ClockModulus]
    /\ app' = [Begin("tick").app EXCEPT !.ret = Status("OK"), !.elapsed = @ + 1]
    /\ UNCHANGED <<stack, queue>>

EnableBeaconAcquisition ==
    /\ stack.state # "NOT_INITIALIZED"
    /\ Commit(enable_beacon_acquisition(Begin("enable_beacon_acquisition")))

\* MacOps reports the outcome of the acquisition
BeaconAcquisition ==
    /\ mac.beacon = "ACQUIRING"
    /\ \/ Commit(process_beacon_event(
                    [Begin("beacon_acquisition_success")
                       EXCEPT !.mac.beacon = "LOCKED", !.app.elapsed = 0],
                    "ACQUISITION_SUCCESS"))
       \/ Commit(process_beacon_event(
                    [Begin("beacon_acquisition_failed") EXCEPT !.mac.beacon = "NONE"],
                    "ACQUISITION_FAILED"))

\* a beacon slot of the acquired beacon: the beacon is received or missed
BeaconLock ==
    /\ mac.beacon = "LOCKED"
    /\ Commit(process_beacon_event([Begin("beacon_lock") EXCEPT !.app.elapsed = 0],
                                   "LOCK"))

BeaconMiss ==
    /\ mac.beacon = "LOCKED"
    /\ Commit(process_beacon_event(Begin("beacon_miss"), "MISS"))

AppSetClassB == \E c \in {"A", "B"} : c # mac.device_class /\ SetDeviceClass(c)

NextBeacon ==
    \/ AppInitialize
    \/ AppAddCallbacks
    \/ EnableBeaconAcquisition
    \/ BeaconAcquisition
    \/ AppSetClassB
    \/ BeaconLock
    \/ BeaconMiss
    \/ Tick

SpecBeacon == Init /\ [][NextBeacon]_vars

(***************************************************************************)
(* Specification of the forced rejoin on a LoRaWAN 1.1 server: a downlink  *)
(* carries a ForceRejoinReq and the forced-rejoin timer expires whenever   *)
(* it is armed.                                                            *)
(***************************************************************************)
\* the forced rejoins the model follows after one ForceRejoinReq
MaxForcedSent == MaxForcedRetries + 3

RadioForceRejoinReq ==
    /\ nwk_joined(World) /\ mac.txkind = "DATA"
    /\ \E rejoin_type \in 0..2, max_retries \in 0..MaxForcedRetries :
          RxDoneIsr(ForceRejoinFrame(rejoin_type, max_retries))

ForcedTimerExpiry ==
    /\ stack.forced_timer /\ app.forced_sent < MaxForcedSent
    /\ Commit(forced_timer_expiry(
                 [Begin("forced_timer_expiry") EXCEPT !.stack.forced_timer = FALSE]))

NextForced ==
    \/ AppInitialize
    \/ AppAddCallbacks
    \/ AppConnectAbp
    \/ AppSendUnconfirmed
    \/ BackoffExpires
    \/ TxDoneIsr
    \/ RadioRxDone
    \/ RadioForceRejoinReq
    \/ RxTimeoutIsr
    \/ ForcedTimerExpiry
    \/ DispatchNoType1

SpecForced == InitRejoin /\ [][NextForced]_vars

(***************************************************************************)
(* Specification of the clock synchronisation: the GPS time becomes known, *)
(* the platform clock reads some time and the application writes the       *)
(* system time from the GPS time.                                          *)
(***************************************************************************)
GpsTimes == {0, 1, 499, 500, 999, 1000, 1499, 1500, 86400000, 1234567500}
TaiUtcDiffs == {0, 18, 19, 37}
ClockReadings == {0, 1, 86400}

AppSetCurrentGpsTime == \E g \in GpsTimes : g # mac.gps_time /\ SetCurrentGpsTime(g)

\* the platform clock reads a time of its own
PlatformClock ==
    \E t \in ClockReadings :
        /\ t # app.sys_time
        /\ app' = [Begin("platform_clock").app EXCEPT !.ret = Status("OK"),
                                                       !.sys_time = t]
        /\ UNCHANGED <<stack, mac, queue>>

AppSetSystemTimeUtc ==
    /\ app.sys_time \in ClockReadings
    /\ \E d \in TaiUtcDiffs : SetSystemTimeUtc(d)

NextTime ==
    \/ AppInitialize
    \/ AppSetCurrentGpsTime
    \/ PlatformClock
    \/ AppSetSystemTimeUtc

SpecTime == Init /\ [][NextTime]_vars

(***************************************************************************)
(* Specification of the session counters: uplinks and downlinks move the   *)
(* frame counters while the application connects over the air or by        *)
(* personalisation and disconnects at any time.                            *)
(***************************************************************************)
AppConnectAny == stack.events_cb /\ AppConnect

\* the application disconnects while no deferred handler is waiting
DisconnectAtRest == queue = <<>> /\ Disconnect

NextCounters ==
    \/ AppInitialize
    \/ AppAddCallbacks
    \/ AppConnectAny
    \/ DisconnectAtRest
    \/ AppSendUnconfirmed
    \/ BackoffExpires
    \/ TxDoneIsr
    \/ RadioRxDone
    \/ RxTimeoutIsr
    \/ DispatchScheduled

SpecCounters == Init /\ [][NextCounters]_vars

(***************************************************************************)
(* Specification of the sticky MAC commands: the application adds and      *)
(* removes the link check, device time and ping-slot info requests at any  *)
(* time between its uplinks and the network answers the requests.          *)
(***************************************************************************)
AppAddBothCallbacks ==
    /\ ~stack.link_check_cb
    /\ Commit(set_lora_callbacks(Begin("add_app_callbacks"), FALSE, FALSE))

\* the answers of the network to the requests the device keeps sending
StickyAnswers ==
    (IF stack.link_check_requested THEN {ConfirmFrame("LINK_CHECK_OK")} ELSE {})
    \cup (IF stack.device_time_requested THEN {DeviceTimeAns(1000)} ELSE {})
    \cup (IF stack.ping_slot_info_requested THEN {ConfirmFrame("PING_SLOT_INFO")} ELSE {})

RadioStickyAnswer ==
    /\ mac.txkind = "DATA"
    /\ \E frame \in StickyAnswers : RxDoneIsr(frame)

NextSticky ==
    \/ AppInitialize
    \/ AppAddCallbacks
    \/ AppAddBothCallbacks
    \/ AppConnectAbp
    \/ AppSendUnconfirmed
    \/ AddLinkCheckRequest
    \/ RemoveLinkCheckRequest
    \/ AddDeviceTimeRequest
    \/ RemoveDeviceTimeRequest
    \/ AddPingSlotInfoRequest
    \/ RemovePingSlotInfoRequest
    \/ BackoffExpires
    \/ TxDoneIsr
    \/ RadioStickyAnswer
    \/ RxTimeoutIsr
    \/ Dispatch

SpecSticky == Init /\ [][NextSticky]_vars

(***************************************************************************)
(* Specification of two threads: one dispatches the event queue, each      *)
(* handler taking two steps (it begins, it completes), the other is the    *)
(* application, whose facade calls take the mutex (a scoped Lock), run     *)
(* and release it.  mac.mutex names the thread that holds the mutex of     *)
(* MacOps ("FREE", "APP" or "QUEUE"), app.running the handler that has     *)
(* begun and not completed.                                                *)
(***************************************************************************)
lock(w, thread) == [w EXCEPT !.mac.mutex = thread]

unlock(w) == [w EXCEPT !.mac.mutex = "FREE"]

\* the constructor of the scoped lock of a facade call; it blocks while the
\* mutex is held
FacadeLock ==
    /\ mac.mutex = "FREE"
    /\ Commit(Return(lock(Begin("lock"), "APP"), Status("OK")))

LockedInitialize ==
    /\ mac.mutex = "APP" /\ stack.state = "NOT_INITIALIZED"
    /\ Commit(unlock(initialize_mac_layer(Begin("initialize"), FALSE, TRUE)))

LockedAddCallbacks ==
    /\ mac.mutex = "APP" /\ ~stack.events_cb
    /\ Commit(unlock(set_lora_callbacks(Begin("add_app_callbacks"), FALSE, TRUE)))

LockedConnect ==
    /\ mac.mutex = "APP" /\ stack.events_cb /\ "CONNECTED" \notin stack.flags
    /\ Commit(unlock(connect(Begin("connect"), "ABP")))

LockedSend ==
    /\ mac.mutex = "APP"
    /\ Commit(unlock(handle_tx(Begin("send"), 1, FALSE, SendLength, MSG_UNCONFIRMED_FLAG,
                               FALSE, FALSE, "OK")))

LockedCancelSending ==
    /\ mac.mutex = "APP"
    /\ Commit(unlock(stop_sending(Begin("cancel_sending"))))

\* the event queue takes the handler at its head and calls it
HandlerBegin ==
    /\ queue # <<>> /\ app.running = NoItem
    /\ Commit(Return([Begin(Head(queue).h) EXCEPT !.queue = Tail(@),
                                                  !.app.running = Head(queue)],
                      Status("OK")))

\* the handler runs to its end
HandlerEnd ==
    /\ app.running # NoItem
    /\ \E type1_due \in BOOLEAN :
          Commit(RunHandler([Begin(app.running.h) EXCEPT !.app.running = NoItem],
                            app.running, "OK", type1_due))

NextThreads ==
    \/ FacadeLock
    \/ LockedInitialize
    \/ LockedAddCallbacks
    \/ LockedConnect
    \/ LockedSend
    \/ LockedCancelSending
    \/ BackoffExpires
    \/ TxDoneIsr
    \/ RadioRxDone
    \/ RxTimeoutIsr
    \/ HandlerBegin
    \/ HandlerEnd

SpecThreads == Init /\ [][NextThreads]_vars

(***************************************************************************)
(* Specification of the staging buffer: a LoRaWAN 1.1 device that may      *)
(* listen continuously (Class C).  The radio interrupts preempt the        *)
(* handlers of the event queue: process_reception takes two steps, all of  *)
(* it but its last statement and then the final clear of the in-use flag,  *)
(* and an interrupt may arrive in between.  app.running is the             *)
(* process_reception that has begun and not ended.                         *)
(***************************************************************************)
StagingInitialize == app.running = NoItem /\ AppInitialize

StagingAddCallbacks == app.running = NoItem /\ AppAddCallbacks

StagingConnect == app.running = NoItem /\ AppConnectAbp

\* the application asks for Class C once, before it connects
StagingSetDeviceClass ==
    /\ app.running = NoItem /\ "CONNECTED" \notin stack.flags
    /\ ~stack.device_mode_ind_needed /\ SetDeviceClass("C")

StagingSend ==
    /\ app.running = NoItem
    /\ Commit(handle_tx(Begin("send"), 1, FALSE, SendLength, MSG_UNCONFIRMED_FLAG,
                        FALSE, FALSE, "OK"))

StagingBackoffExpires == app.running = NoItem /\ BackoffExpires

\* an rx_done interrupt while the staging buffer is in use: nothing is queued
RxDoneInUse ==
    /\ mac.phase \in RxPhases /\ stack.rx_payload_in_use
    /\ \E frame \in FramesAt(mac) :
          Commit(Return(rx_interrupt_handler(Begin("rx_interrupt_handler"), frame),
                        Status("OK")))

\* the event queue runs the handler at its head; process_reception stops
\* before its last statement
DispatchBeforeRelease ==
    /\ queue # <<>> /\ app.running = NoItem
    /\ LET item == Head(queue)
           w == [Begin(item.h) EXCEPT !.queue = Tail(@)]
       IN Commit(IF item.h = "process_reception"
                 THEN Return(process_reception_before_release(
                                [w EXCEPT !.app.running = item], item.frame, FALSE),
                             Status("OK"))
                 ELSE RunOtherHandler(w, item, "OK", FALSE))

ReceptionEnd ==
    /\ app.running # NoItem
    /\ Commit(Return(release_rx_payload(
                        [Begin("process_reception_end") EXCEPT !.app.running = NoItem]),
                     Status("OK")))

NextStaging ==
    \/ StagingInitialize
    \/ StagingAddCallbacks
    \/ StagingConnect
    \/ StagingSetDeviceClass
    \/ StagingSend
    \/ StagingBackoffExpires
    \/ TxDoneIsr
    \/ RadioRxDone
    \/ RxDoneInUse
    \/ RxTimeoutIsr
    \/ DispatchBeforeRelease
    \/ ReceptionEnd

SpecStaging == InitRejoin /\ [][NextStaging]_vars

(***************************************************************************)
(* Specification of a session on a LoRaWAN 1.1 server that starts with an  *)
(* over-the-air join: after the JoinAccept the uplinks carry the RekeyInd  *)
(* until the network confirms it.                                          *)
(***************************************************************************)
NextRekey ==
    \/ AppInitialize
    \/ AppAddCallbacks
    \/ AppConnectOtaa
    \/ AppSend
    \/ BackoffExpires
    \/ TxDoneIsr
    \/ RadioRxDone
    \/ RxTimeoutIsr
    \/ DispatchNoType1

SpecRekey == InitRejoin /\ [][NextRekey]_vars

(***************************************************************************)
(* Specification of the automatic uplinks of a Class A device: downlinks   *)
(* carry the frame-pending bit, which makes the stack queue an empty       *)
(* confirmed uplink of its own, next to the uplinks of the application.    *)
(***************************************************************************)
FPendingFrame == [DataFrame(1, "UNCONFIRMED", <<7>>) EXCEPT !.fpending = TRUE]

RadioRxFPending ==
    \E frame \in {NoFrame, AckFrame, FPendingFrame} : RxDoneIsr(frame)

NextAuto ==
    \/ AppInitialize
    \/ AppAddCallbacks
    \/ AppConnectAbp
    \/ AppSendUnconfirmed
    \/ BackoffExpires
    \/ AckTimeoutRetransmit
    \/ TxDoneIsr
    \/ TxTimeoutIsr
    \/ RadioRxFPending
    \/ RxTimeoutIsr
    \/ Dispatch

SpecAuto == Init /\ [][NextAuto]_vars

(***************************************************************************)
(* Specification of a device whose MacOps initialize() may fail: the       *)
(* application calls initialize() with or without a queue, and the MAC     *)
(* layer accepts or refuses the initialization.                            *)
(***************************************************************************)
AppInitializeMac ==
    /\ stack.state = "NOT_INITIALIZED"
    /\ \E queue_null \in BOOLEAN, init_ok \in BOOLEAN : Initialize(queue_null, init_ok)

NextInit ==
    \/ AppInitializeMac
    \/ AppAddCallbacks
    \/ AppConnectAbp
    \/ AppSend
    \/ BackoffExpires
    \/ TxDoneIsr
    \/ RadioRxDone
    \/ RxTimeoutIsr
    \/ Dispatch

SpecInit == Init /\ [][NextInit]_vars

TypeOK ==
    /\ stack.state \in DeviceStates
    /\ stack.flags \subseteq ControlFlags
    /\ Len(queue) <= MaxQueue + 3

(***************************************************************************)
(* Properties                                                              *)
(***************************************************************************)
AnyPorts == {0, 1, 223, COMPLIANCE_TESTING_PORT, INVALID_PORT}
AnyFlags == {0, MSG_UNCONFIRMED_FLAG, MSG_CONFIRMED_FLAG, MSG_MULTICAST_FLAG,
             MSG_PROPRIETARY_FLAG, MSG_UNCONFIRMED_FLAG + MSG_CONFIRMED_FLAG}
AnyLengths == {0, SendLength}

PostedTerminal == \E i \in DOMAIN app.posted : app.posted[i] \in TerminalEvents

C1_Pre ==
    /\ stack.state # "NOT_INITIALIZED" /\ stack.active
    /\ mac.tx_ongoing /\ "REJOIN_IN_PROGRESS" \notin stack.flags

\* C1: send() with non-null data on an initialized stack with an active
\* session and no rejoin in progress, called while an uplink is in flight
\* (tx_ongoing), returns WOULD_BLOCK, does not call prepare_ongoing_tx and
\* leaves the message in flight as it is, whatever port, length and flags.
C1_SendWhileTxOngoing ==
    /\ C1_Pre =>
         \A port \in AnyPorts, length \in AnyLengths, flags \in AnyFlags,
            sched \in SchedResults :
            LET r == handle_tx(Begin("send"), port, FALSE, length, flags,
                               FALSE, FALSE, sched)
            IN /\ r.ret = Status("WOULD_BLOCK")
               /\ "prepare_ongoing_tx" \notin r.app.calls
               /\ r.mac = mac
    /\ (/\ app.op = "send" /\ app.pre.tx_ongoing /\ ~app.pre.rejoin
        /\ stack.active)
         => /\ app.ret = Status("WOULD_BLOCK")
            /\ "prepare_ongoing_tx" \notin app.calls

C1_Witness ==
    /\ app.op = "send" /\ app.pre.tx_ongoing /\ ~app.pre.rejoin /\ stack.active
    /\ app.ret = Status("WOULD_BLOCK") /\ mac.tx_ongoing
    /\ "prepare_ongoing_tx" \notin app.calls

\* C2: for a send() that returned a length, at most one terminal event
\* (TX_DONE, TX_TIMEOUT, TX_ERROR, TX_SCHEDULING_ERROR, TX_CRYPTO_ERROR) is
\* posted before the next accepted send().
C2_AtMostOneTerminal == app.term # "MANY"

SendAccepted == app.op = "send" /\ app.ret.st = "LEN"

\* C3: a send() that returns a length returns the length of the payload it
\* was given, and a terminal event is eventually posted after it, when the
\* radio reports every outcome, the MAC timers fire and the queue runs.
C3_AcceptedSendTerminates ==
    /\ [](SendAccepted => app.ret.len = SendLength)
    /\ (SendAccepted ~> PostedTerminal)

\* C4: a terminal TX event is posted only by a step that started with an
\* uplink in flight (tx_ongoing true).
C4_TerminalOnlyInFlight == PostedTerminal => app.pre.tx_ongoing

\* C5: while a rejoin is in progress, send() with non-null data on an
\* initialized stack returns BUSY, calls nothing in MacOps, queues nothing,
\* posts nothing and leaves the device state and the control flags unchanged.
C5_SendWhileRejoin ==
    /\ (stack.state # "NOT_INITIALIZED" /\ "REJOIN_IN_PROGRESS" \in stack.flags) =>
         \A port \in AnyPorts, length \in AnyLengths, flags \in AnyFlags,
            sched \in SchedResults :
            LET r == handle_tx(Begin("send"), port, FALSE, length, flags,
                               FALSE, FALSE, sched)
            IN /\ r.ret = Status("BUSY")
               /\ r.stack = stack /\ r.mac = mac /\ r.queue = queue
               /\ r.app.calls = {} /\ r.app.posted = <<>>
    /\ (app.op = "send" /\ app.pre.rejoin) =>
          /\ app.ret = Status("BUSY") /\ app.calls = {} /\ app.posted = <<>>
          /\ "REJOIN_IN_PROGRESS" \in stack.flags

C5_Witness ==
    /\ app.op = "send" /\ app.pre.rejoin /\ app.ret = Status("BUSY")
    /\ "REJOIN_IN_PROGRESS" \in stack.flags /\ stack.active /\ ~mac.tx_ongoing

AnyFrames ==
    {NoFrame, AckFrame} \cup {ConfirmFrame(r) : r \in JoinResults}
    \cup {DataFrame(1, type, <<7>>) : type \in {"UNCONFIRMED", "CONFIRMED"}}
    \cup {[DataFrame(1, "UNCONFIRMED", <<7>>) EXCEPT !.fpending = TRUE]}

\* C6: process_reception running while a rejoin is in progress posts no
\* RX_DONE and does not change receive_ready, whatever frame was received.
C6_ReceptionWhileRejoin ==
    /\ "REJOIN_IN_PROGRESS" \in stack.flags =>
         \A frame \in AnyFrames, type1_due \in BOOLEAN :
            LET r == process_reception(Begin("process_reception"), frame, type1_due)
            IN /\ \A i \in DOMAIN r.app.posted : r.app.posted[i] # "RX_DONE"
               /\ r.stack.rx_msg = stack.rx_msg
    /\ (app.op = "process_reception" /\ app.pre.rejoin) =>
          \A i \in DOMAIN app.posted : app.posted[i] # "RX_DONE"

\* a data downlink was decoded while the rejoin was in progress and dropped
C6_Witness ==
    /\ app.op = "process_reception" /\ app.pre.rejoin /\ mac.joined
    /\ mac.rx_buffer # <<>> /\ app.original = <<>>
    /\ ~stack.rx_msg.receive_ready /\ app.posted = <<>>

\* the calls of receive() the properties range over
AnyRxPorts == {1, 2}
AnyRxFlags == {0, MSG_UNCONFIRMED_FLAG, MSG_MULTICAST_FLAG}

RxReady == stack.state # "NOT_INITIALIZED" /\ stack.active /\ stack.rx_msg.receive_ready

Remaining == Len(app.original) - Len(app.delivered)

IsPrefix(a, b) == Len(a) <= Len(b) /\ a = SubSeq(b, 1, Len(a))

\* the flag receive() reports for the pending message
PendingFlag == BitAnd(convert_to_msg_flag(stack.rx_msg.type), MSG_FLAG_MASK)

\* the caller of the validating receive() asks for another message than the
\* pending one
Mismatch(port, flags) ==
    stack.rx_msg.port # port \/ BitAnd(flags, PendingFlag) = 0

C7_NotReadyStatus ==
    IF stack.state = "NOT_INITIALIZED" THEN "NOT_INITIALIZED"
    ELSE IF ~stack.active THEN "NO_ACTIVE_SESSIONS"
    ELSE "WOULD_BLOCK"

C8_Drain ==
    /\ (app.clean /\ stack.rx_msg.receive_ready) =>
          /\ IsPrefix(app.delivered, app.original)
          /\ Remaining > 0 \/ app.original = <<>>
          /\ stack.rx_msg.pending_size = 0 => app.delivered = <<>>
          /\ stack.rx_msg.pending_size # 0 =>
                /\ stack.rx_msg.prev_read_size = Len(app.delivered)
                /\ stack.rx_msg.pending_size = Remaining
    /\ (app.clean /\ RxReady) =>
          \A length \in 1..MaxRxLen, validate \in BOOLEAN :
            LET r == handle_rx(Begin("receive"), FALSE, length, stack.rx_msg.port,
                               PendingFlag, validate)
                n == Min(length, Remaining)
            IN /\ r.ret = Length(n)
               /\ r.app.copied =
                     SubSeq(app.original, Len(app.delivered) + 1, Len(app.delivered) + n)
               /\ r.stack.rx_msg.receive_ready = (length < Remaining)
    /\ (app.clean /\ ~stack.rx_msg.receive_ready) => app.delivered = app.original

\* the last of several calls has delivered the last byte of the longest payload
C8_Witness ==
    /\ app.op = "receive" /\ app.ret = Length(1) /\ app.clean
    /\ ~stack.rx_msg.receive_ready
    /\ Len(app.original) = MaxPayload /\ app.delivered = app.original
    /\ app.copied = <<app.original[MaxPayload]>>

\* C9: after a downlink has been drained, a further receive() with a valid
\* buffer returns 0.
C9_DrainedReceiveReturnsZero ==
    (/\ app.clean /\ app.delivered = app.original /\ ~stack.rx_msg.receive_ready
     /\ stack.state # "NOT_INITIALIZED" /\ stack.active) =>
        \A port \in AnyRxPorts, length \in 1..MaxRxLen, flags \in AnyRxFlags,
           validate \in BOOLEAN :
            handle_rx(Begin("receive"), FALSE, length, port, flags, validate).ret
                = Length(0)

\* C10: on an initialized stack with an active session and a pending
\* message, the validating receive() with a valid buffer returns WOULD_BLOCK
\* when the port differs from the message's or the message's type flag is
\* not among flags; the message, receive_ready, the cursor and the caller's
\* port and flags are then unchanged and a matching call made next reads
\* what it would have read before.
C10_MismatchPreserves ==
    RxReady =>
        \A port \in AnyRxPorts, length \in 1..MaxRxLen, flags \in AnyRxFlags :
            Mismatch(port, flags) =>
                LET r == handle_rx(Begin("receive"), FALSE, length, port, flags, TRUE)
                    before == handle_rx(Begin("receive"), FALSE, length,
                                        stack.rx_msg.port, PendingFlag, TRUE)
                    after == handle_rx([r EXCEPT !.app.copied = <<>>], FALSE, length,
                                       stack.rx_msg.port, PendingFlag, TRUE)
                IN /\ r.ret = Status("WOULD_BLOCK")
                   /\ r.stack = stack /\ r.mac = mac
                   /\ r.app.out = [port |-> port, flags |-> flags]
                   /\ r.app.copied = <<>> /\ r.app.delivered = app.delivered
                   /\ after.ret = before.ret /\ after.app.copied = before.app.copied
                   /\ after.ret.st = "LEN"

\* the pending message was refused to a caller that asked for another port
C10_Witness ==
    /\ app.op = "receive" /\ app.ret = Status("WOULD_BLOCK") /\ RxReady
    /\ app.out.port # stack.rx_msg.port /\ app.out.port \in RxPorts
    /\ app.clean /\ app.delivered = <<>> /\ app.original # <<>>

\* C10 as stated: whenever a message is pending, the mismatching call
\* returns WOULD_BLOCK and changes nothing
C10_MismatchWouldBlock ==
    stack.rx_msg.receive_ready =>
        \A port \in AnyRxPorts, length \in 1..MaxRxLen, flags \in AnyRxFlags :
            Mismatch(port, flags) =>
                LET r == handle_rx(Begin("receive"), FALSE, length, port, flags, TRUE)
                IN /\ r.ret = Status("WOULD_BLOCK")
                   /\ r.stack = stack
                   /\ r.app.out = [port |-> port, flags |-> flags]

\* C11: disconnect() on an initialized stack returns DEVICE_OFF and leaves the
\* device in state SHUTDOWN with no control flag set and the session
\* inactive, whatever the state it is called in; DISCONNECTED is posted to
\* the event callback the application has registered, and to nobody when it
\* has registered none.
C11_DisconnectShutsDown ==
    /\ stack.state # "NOT_INITIALIZED" =>
          LET r == shutdown(Begin("disconnect")) IN
          /\ r.ret = Status("DEVICE_OFF")
          /\ r.stack.state = "SHUTDOWN"
          /\ r.stack.flags = {}
          /\ ~r.stack.active
          /\ r.app.posted = IF stack.events_cb THEN <<"DISCONNECTED">> ELSE <<>>
    /\ app.op = "disconnect" /\ app.ret # Status("NOT_INITIALIZED") =>
          /\ app.ret = Status("DEVICE_OFF")
          /\ stack.state = "SHUTDOWN" /\ stack.flags = {} /\ ~stack.active

\* a disconnect() issued while a join was in progress has shut the device down
C11_Witness ==
    /\ app.op = "disconnect" /\ app.ret = Status("DEVICE_OFF")
    /\ app.pre.flags # {} /\ app.pre.state \in {"JOINING", "AWAITING_JOIN_ACCEPT"}
    /\ app.posted = <<"DISCONNECTED">>
    /\ stack.state = "SHUTDOWN" /\ stack.flags = {}

\* C11 as stated: every disconnect() on an initialized stack posts DISCONNECTED
C11_DisconnectAlwaysPosts ==
    app.op = "disconnect" /\ app.ret = Status("DEVICE_OFF") =>
        app.posted = <<"DISCONNECTED">>

\* C12: once the device state is SHUTDOWN, every step other than a call of
\* initialize() leaves it SHUTDOWN with no control flag set and the session
\* inactive.
C12_ShutdownIsFinal ==
    [][stack.state = "SHUTDOWN" /\ app'.op # "initialize" =>
          stack'.state = "SHUTDOWN" /\ stack'.flags = {} /\ ~stack'.active]_vars

\* C13: connect(), in either form and with any connection type, called while
\* CONN_IN_PROGRESS is set returns BUSY and called while CONNECTED is set
\* returns ALREADY_CONNECTED (the two flags are never set together); it calls
\* no MacOps entry point, posts no event and leaves the stack (state, flags,
\* session counters), MacOps and the queue as they were.
C13_ConnectWhileConnecting ==
    /\ ~({"CONN_IN_PROGRESS", "CONNECTED"} \subseteq stack.flags)
    /\ \A ctype \in ConnectTypes :
          stack.flags \cap {"CONN_IN_PROGRESS", "CONNECTED"} # {} =>
             LET r == connect(Begin("connect"), ctype) IN
             /\ "CONN_IN_PROGRESS" \in stack.flags => r.ret = Status("BUSY")
             /\ "CONNECTED" \in stack.flags => r.ret = Status("ALREADY_CONNECTED")
             /\ r.stack = stack /\ r.mac = mac /\ r.queue = queue
             /\ r.app.posted = <<>> /\ r.app.calls = {}
    /\ app.op = "connect" /\ app.pre.flags \cap {"CONN_IN_PROGRESS", "CONNECTED"} # {} =>
          /\ app.ret \in {Status("BUSY"), Status("ALREADY_CONNECTED")}
          /\ app.posted = <<>> /\ app.calls = {}
          /\ stack.state = app.pre.state /\ stack.flags = app.pre.flags

\* a connect() issued while the join request of an earlier connect() waits for
\* its answer was refused
C13_Witness ==
    /\ app.op = "connect" /\ app.ret = Status("BUSY")
    /\ "CONN_IN_PROGRESS" \in stack.flags
    /\ stack.state = "AWAITING_JOIN_ACCEPT"

JoinOutcomes == {"CONNECTED", "JOIN_FAILURE", "CRYPTO_ERROR", "TX_TIMEOUT"}

\* C14: after connect() has started an over-the-air join (it returned
\* CONNECT_IN_PROGRESS), the application eventually receives CONNECTED,
\* JOIN_FAILURE, CRYPTO_ERROR or TX_TIMEOUT.
C14_JoinTerminates ==
    (app.op = "connect" /\ app.ret = Status("CONNECT_IN_PROGRESS"))
        ~> (\E i \in DOMAIN app.posted : app.posted[i] \in JoinOutcomes)

\* C15: whenever the handling of a received frame has posted CONNECTED (a
\* JoinAccept was processed successfully), the session uplink and downlink
\* counters are 0, USING_OTAA and CONNECTED are set, CONN_IN_PROGRESS is
\* clear, the session is active and the device state is IDLE.
C15_JoinAcceptConnected ==
    app.op = "process_reception" /\ app.posted = <<"CONNECTED">> =>
        /\ stack.uplink_counter = 0 /\ stack.downlink_counter = 0
        /\ {"USING_OTAA", "CONNECTED"} \subseteq stack.flags
        /\ "CONN_IN_PROGRESS" \notin stack.flags
        /\ stack.active /\ stack.state = "IDLE"

\* C16: a send() with valid arguments (an application port, a buffer, a
\* message type flag) on an initialized stack that has not joined a network
\* returns NO_NETWORK_JOINED.
C16_SendNotJoined ==
    app.op = "send" /\ app.pre.state # "NOT_INITIALIZED" /\ ~nwk_joined(World) =>
        app.ret = Status("NO_NETWORK_JOINED")

\* C17: the ports 1..223 are accepted and stored as the application port;
\* port 224 and the ports 225..255 are rejected with PORT_INVALID and the
\* stored application port stays as it was; port 0 is accepted with
\* allow_port_0 and rejected without it.  (The port is validated by a send()
\* on a joined stack with an active session and no uplink in flight.)
C17_PortValidation ==
    /\ stack.active /\ nwk_joined(World) /\ ~tx_ongoing(World) =>
          \A port \in Ports, allow_port_0 \in BOOLEAN :
             LET r == set_application_port(World, port, allow_port_0) IN
             IF port \in 1..223 \/ (port = 0 /\ allow_port_0)
             THEN r.ret = Status("OK") /\ r.stack.app_port = port
             ELSE r.ret = Status("PORT_INVALID") /\ r.stack.app_port = stack.app_port
    /\ app.op = "send" /\ app.ret.st = "LEN" => stack.app_port \in 1..223

\* the handlers that write the TX metadata (a transmission has completed or
\* its receive windows have ended) and the RX metadata (a frame was received)
TxMetadataWriters ==
    {"process_transmission", "process_reception", "process_reception_timeout"}
RxMetadataWriters == {"process_reception"}

TxDonePosted ==
    app.owner = "APP" /\ \E i \in DOMAIN app.posted : app.posted[i] = "TX_DONE"

Posted(event) == \E i \in DOMAIN app.posted : app.posted[i] = event

\* C21: the retransmission cycle of an accepted confirmed send() ends in a
\* receive window handler either with TX_DONE, posted for an acked uplink,
\* or with TX_ERROR, posted when no retransmission is left (retries
\* exhausted), and the ending clears tx_ongoing.
C21_ConfirmedCycleEndings ==
    (/\ app.owner = "APP" /\ mac.req_type = "CONFIRMED"
     /\ app.op \in {"process_reception", "process_reception_timeout"})
      => /\ Posted("TX_DONE") => mac.status = "OK"
         /\ Posted("TX_ERROR") => mac.retries_left = 0
         /\ PostedTerminal => ~mac.tx_ongoing

\* C22: on a LoRaWAN 1.1 server the MAC device class changes and
\* CLASS_CHANGED is posted only once the DeviceModeConf for the requested
\* class change has been received (the request is no longer pending).
C22_ClassChangeAfterConf ==
    [][(/\ get_server_type(World) = "LW1_1"
        /\ \/ mac'.device_class # mac.device_class
           \/ \E i \in DOMAIN app'.posted : app'.posted[i] = "CLASS_CHANGED")
         => ~stack'.device_mode_ind_needed]_vars

\* C23: a beacon miss switches a Class B device to Class A, and posts
\* SWITCH_CLASS_B_TO_A to a registered event callback, exactly when the time
\* since the last received beacon has reached the beacon-less period, never
\* earlier; a received beacon restarts the period; no miss switches or posts
\* the event again once the device has left Class B.
C23_BeaconlessSwitch ==
    /\ app.op = "beacon_miss" =>
          /\ (app.pre.class = "B" /\ mac.device_class = "A") <=>
                /\ app.pre.class = "B"
                /\ app.elapsed >= BeaconlessPeriod * TicksPerSecond
          /\ Posted("SWITCH_CLASS_B_TO_A") <=>
                /\ app.pre.class = "B" /\ mac.device_class = "A"
                /\ stack.events_cb
          /\ mac.device_class \in {"A", app.pre.class}
          /\ Len(SelectSeq(app.posted, LAMBDA e : e = "SWITCH_CLASS_B_TO_A")) <= 1
    /\ app.op = "beacon_lock" =>
          /\ app.posted = (IF stack.events_cb THEN <<"BEACON_LOCK">> ELSE <<>>)
          /\ no_beacon_rx_time(World) = 0 /\ mac.device_class = app.pre.class
    /\ mac.beacon = "LOCKED" => no_beacon_rx_time(World) = app.elapsed
    /\ mac.device_class # "B" =>
          LET r == process_beacon_event(Begin("beacon_miss"), "MISS")
          IN /\ r.app.posted = (IF stack.events_cb THEN <<"BEACON_MISS">> ELSE <<>>)
             /\ r.mac = mac /\ r.stack = stack

\* a miss at the end of the period has switched the device and posted the
\* event; the clock has wrapped around since the last received beacon
C23_Witness ==
    /\ app.op = "beacon_miss"
    /\ app.posted = <<"BEACON_MISS", "SWITCH_CLASS_B_TO_A">>
    /\ app.pre.class = "B" /\ mac.device_class = "A"
    /\ app.elapsed = BeaconlessPeriod * TicksPerSecond
    /\ stack.last_beacon_rx_time > mac.now

\* C24: after a ForceRejoinReq with max_retries = N has been processed, at
\* most N + 1 forced rejoin requests are made (the retry count the stack
\* keeps is N + 1, or 0 for N = 0), and with N = 0 exactly one is made and
\* the forced-rejoin timer is not started.
C24_ForcedRejoinBounded ==
    /\ app.forced_sent <= (IF stack.forced_retry_count = 0 THEN 1
                           ELSE stack.forced_retry_count)
    /\ stack.forced_retry_count = 0 => ~stack.forced_timer

\* C25: set_system_time_utc(d) with the GPS time set to g milliseconds
\* writes the system time 315964800 + (d - 19) + round(g / 1000) seconds,
\* a remainder of 500 ms or more rounding up.
C25_SystemTimeUtc ==
    (app.op = "set_system_time_utc" /\ mac.gps_time # 0)
      => /\ app.ret = Status("OK")
         /\ app.sys_time = UNIX_GPS_EPOCH_DIFF + (app.tai_utc_diff - 19)
                              + (mac.gps_time + 500) \div 1000

ConnectRefusals == {"NOT_INITIALIZED", "BUSY", "ALREADY_CONNECTED", "PARAMETER_INVALID"}

\* C26: disconnect() leaves the session uplink and downlink counters as
\* they are, so does a connect() by personalisation, a connect() over the
\* air sets both to 0; any other step writes the uplink counter only from
\* an MCPS confirmation with status OK and the downlink counter only from
\* a handled MCPS indication with status OK.
C26_SessionCounters ==
    /\ [](LET d == shutdown(Begin("disconnect"))
              a == connect(Begin("connect"), "ABP")
              o == connect(Begin("connect"), "OTAA")
          IN /\ d.stack.uplink_counter = stack.uplink_counter
             /\ d.stack.downlink_counter = stack.downlink_counter
             /\ a.stack.uplink_counter = stack.uplink_counter
             /\ a.stack.downlink_counter = stack.downlink_counter
             /\ o.ret.st \notin ConnectRefusals =>
                   o.stack.uplink_counter = 0 /\ o.stack.downlink_counter = 0)
    /\ [][/\ app'.op = "disconnect" =>
               /\ stack'.uplink_counter = stack.uplink_counter
               /\ stack'.downlink_counter = stack.downlink_counter
          /\ (app'.op = "connect" /\ app'.ret.st \notin ConnectRefusals) =>
               IF "USING_OTAA" \in stack'.flags
               THEN stack'.uplink_counter = 0 /\ stack'.downlink_counter = 0
               ELSE /\ stack'.uplink_counter = stack.uplink_counter
                    /\ stack'.downlink_counter = stack.downlink_counter
          /\ (app'.op # "connect" /\ stack'.uplink_counter # stack.uplink_counter) =>
               /\ mac'.status = "OK"
               /\ stack'.uplink_counter = mac'.ul_frame_counter
               /\ stack.events_cb => \E i \in DOMAIN app'.posted : app'.posted[i] = "TX_DONE"
          /\ (app'.op # "connect" /\ stack'.downlink_counter # stack.downlink_counter) =>
               /\ app'.op = "process_reception"
               /\ queue # <<>> /\ Head(queue).h = "process_reception"
               /\ Head(queue).frame.ok /\ Head(queue).frame.data
               /\ stack'.downlink_counter = mac'.dl_frame_counter]_vars

\* a connect() by personalisation after a disconnect has kept the counter
\* of the uplinks of the session before
C26_Witness ==
    /\ app.op = "connect" /\ app.ret = Status("OK")
    /\ app.pre.state = "SHUTDOWN" /\ "USING_OTAA" \notin stack.flags
    /\ stack.uplink_counter > 0 /\ stack.downlink_counter > 0

StickyCalls == {"setup_link_check_request", "setup_device_time_request", "add_ping_slot_info_req"}

\* the sticky commands a send() has to stage: those requested and not removed
StickyRequested ==
    (IF stack.link_check_requested THEN {"setup_link_check_request"} ELSE {})
    \cup (IF stack.device_time_requested THEN {"setup_device_time_request"} ELSE {})
    \cup (IF stack.ping_slot_info_requested THEN {"add_ping_slot_info_req"} ELSE {})

\* a request is set by its add_* call that returns OK and by nothing else; it
\* is dropped by its remove_* call and, for device time and ping-slot info,
\* by the answer of the network, and by nothing else
StickyLifetime ==
    /\ [](/\ (app.op = "add_link_check_request" /\ app.ret = Status("OK"))
               => stack.link_check_requested
          /\ (app.op = "add_device_time_request" /\ app.ret = Status("OK"))
               => stack.device_time_requested
          /\ (app.op = "add_ping_slot_info_request" /\ app.ret = Status("OK"))
               => stack.ping_slot_info_requested
          /\ app.op = "remove_link_check_request" => ~stack.link_check_requested
          /\ app.op = "remove_device_time_request" => ~stack.device_time_requested
          /\ app.op = "remove_ping_slot_info_request" => ~stack.ping_slot_info_requested
          /\ (app.op = "send" /\ app.ret.st = "LEN")
               => app.calls \cap StickyCalls = StickyRequested
          /\ app.op = "send" => app.calls \cap StickyCalls \subseteq StickyRequested)
    /\ [][/\ stack'.link_check_requested # stack.link_check_requested =>
               IF stack.link_check_requested
               THEN app'.op = "remove_link_check_request"
               ELSE app'.op = "add_link_check_request" /\ app'.ret = Status("OK")
          /\ stack'.device_time_requested # stack.device_time_requested =>
               IF stack.device_time_requested
               THEN \/ app'.op = "remove_device_time_request"
                    \/ /\ app'.op = "process_reception"
                       /\ Head(queue).frame.confirm = "DEVICE_TIME_ANS"
               ELSE app'.op = "add_device_time_request" /\ app'.ret = Status("OK")
          /\ stack'.ping_slot_info_requested # stack.ping_slot_info_requested =>
               IF stack.ping_slot_info_requested
               THEN \/ app'.op = "remove_ping_slot_info_request"
                    \/ /\ app'.op = "process_reception"
                       /\ Head(queue).frame.confirm = "PING_SLOT_INFO"
               ELSE app'.op = "add_ping_slot_info_request" /\ app'.ret = Status("OK")]_vars

C28_HandlersHoldMutex ==
    app.running # NoItem => mac.mutex = "QUEUE"

Staged == {i \in DOMAIN queue : queue[i].h = "process_reception"}

\* C29: from the rx_done interrupt that stages a payload to the end of the
\* process_reception that consumes it the in-use flag is set, so that a
\* staged payload waiting for its handler is protected by the flag and no
\* second payload is staged over it.
C29_StagedPayloadProtected ==
    /\ Staged # {} => stack.rx_payload_in_use
    /\ app.running # NoItem => stack.rx_payload_in_use
    /\ Cardinality(Staged) + (IF app.running # NoItem THEN 1 ELSE 0) <= 1

\* the transitions of the device state: those listed, and with them Connected
\* to Idle (the end of every activation) and Shutdown to Idle (initialize()
\* after a disconnect)
ListedTransitions ==
    {<<"NOT_INITIALIZED", "IDLE">>,
     <<"IDLE", "CONNECTING">>, <<"CONNECTING", "JOINING">>, <<"CONNECTING", "CONNECTED">>,
     <<"JOINING", "AWAITING_JOIN_ACCEPT">>,
     <<"AWAITING_JOIN_ACCEPT", "CONNECTED">>, <<"AWAITING_JOIN_ACCEPT", "JOINING">>,
     <<"AWAITING_JOIN_ACCEPT", "IDLE">>,
     <<"IDLE", "SCHEDULING">>, <<"SCHEDULING", "SENDING">>,
     <<"SENDING", "AWAITING_ACK">>, <<"SENDING", "RECEIVING">>,
     <<"AWAITING_ACK", "RECEIVING">>,
     <<"RECEIVING", "STATUS_CHECK">>, <<"STATUS_CHECK", "IDLE">>,
     <<"STATUS_CHECK", "RECEIVING">>,
     <<"CONNECTED", "IDLE">>, <<"SHUTDOWN", "IDLE">>}
    \cup {<<s, "SHUTDOWN">> : s \in DeviceStates \ {"SHUTDOWN"}}

\* the states one call or handler passes through without stopping
PassThrough == {"CONNECTING", "CONNECTED", "SCHEDULING", "STATUS_CHECK", "RECEIVING"}

RECURSIVE ComposeThrough(_)
ComposeThrough(R) ==
    LET R2 == R \cup {<<x[1][1], x[2][2]>> :
                        x \in {y \in R \X ListedTransitions :
                                  y[1][2] = y[2][1] /\ y[1][2] \in PassThrough}}
    IN IF R2 = R THEN R ELSE ComposeThrough(R2)

\* what one call or handler may make of the state by listed transitions
CallTransitions == ComposeThrough(ListedTransitions)

\* C30: every change of the device state made by an operation or a callback
\* is a listed transition or a chain of listed transitions through the
\* states a call passes through.
C30_ListedTransitionsOnly ==
    [][stack'.state # stack.state => <<stack.state, stack'.state>> \in CallTransitions]_vars

\* a QoS repetition of the uplink in flight waits in the event queue
RepetitionQueued ==
    \E i \in 1..Len(queue) : queue[i].h = "state_controller_scheduling"

(* C31: after process_reception has post-processed a downlink received in  *)
(* RX1 or RX2 for a Class A device and the uplink it answers is complete   *)
(* (tx_ongoing clear, no QoS repetition queued), the device state is IDLE. *)
C31_ReceptionEndsIdle ==
    /\ app.op = "process_reception" /\ ~app.pre.rejoin
    /\ app.pre.class = "A" /\ mac.device_class = "A"
    /\ mac.joined /\ mac.rx_slot \in {"RX1", "RX2"}
    /\ app.pre.tx_ongoing /\ ~mac.tx_ongoing /\ ~RepetitionQueued
    => stack.state = "IDLE"

(* C32: when process_transmission (tx_done) runs in state SENDING the      *)
(* state becomes AWAITING_ACK for a confirmed message in flight and        *)
(* RECEIVING for an unconfirmed one; when it runs in state JOINING the     *)
(* state becomes AWAITING_JOIN_ACCEPT.                                     *)
C32_TxDoneTransitions ==
    app.op = "process_transmission" =>
        /\ app.pre.state = "SENDING" =>
              stack.state = IF mac.req_type = "CONFIRMED" THEN "AWAITING_ACK"
                            ELSE "RECEIVING"
        /\ app.pre.state = "JOINING" => stack.state = "AWAITING_JOIN_ACCEPT"

(* C33: when MacOps reports a scheduling failure for a message in flight   *)
(* (handle_scheduling_failure), tx_ongoing is cleared, the device is back  *)
(* in IDLE and TX_SCHEDULING_ERROR is posted to the application.           *)
C33_SchedulingFailure ==
    app.op = "handle_scheduling_failure" /\ app.pre.tx_ongoing =>
        /\ ~mac.tx_ongoing
        /\ stack.state = "IDLE"
        /\ stack.events_cb => app.posted = <<"TX_SCHEDULING_ERROR">>

\* the deferred calls of handler h waiting in a queue
Queued(q, h) == Cardinality({i \in 1..Len(q) : q[i].h = h})

RejoinCall(h) == [NoItem EXCEPT !.h = h]

\* rejoin polling evaluated in the present state
PollRejoinEffect ==
    LET w == Begin("poll_rejoin")
        r0 == poll_rejoin(w, FALSE)
        r1 == poll_rejoin(w, TRUE)
        busy == "REJOIN_IN_PROGRESS" \in stack.flags
        count == stack.rejoin_type0_counter
    IN /\ busy =>
             /\ r0.queue = queue /\ r0.stack.flags = stack.flags
             /\ r0.stack.rejoin_type0_counter = count
             /\ r1.queue = queue /\ r1.stack.flags = stack.flags
             /\ r1.stack.rejoin_type0_counter = count
       /\ ~busy /\ count >= mac_rejoin_max_count =>
             /\ r0.queue = Append(queue, RejoinCall("process_rejoin_type0"))
             /\ r0.stack.flags = stack.flags \cup {"REJOIN_IN_PROGRESS"}
             /\ r0.stack.rejoin_type0_counter = 0
       /\ ~busy /\ count < mac_rejoin_max_count =>
             /\ r0.queue = queue /\ r0.stack.flags = stack.flags
             /\ r0.stack.rejoin_type0_counter = count
       /\ ~busy =>
             /\ r1.queue = Append(queue, RejoinCall("process_rejoin_type1"))
             /\ r1.stack.flags = stack.flags \cup {"REJOIN_IN_PROGRESS"}
             /\ r1.stack.rejoin_type0_counter = count

\* a step of process_reception or process_reception_timeout: the counter
\* grows by one (it is followed up to MaxType0, the MAC's max_count) unless
\* this step queued a type-0 rejoin, which needs the grown counter at
\* max_count and sets REJOIN_IN_PROGRESS; a type-1 rejoin is queued alone
ReceptionCounts ==
    LET grown == Min(stack.rejoin_type0_counter + 1, MaxType0)
        type0 == Queued(queue', "process_rejoin_type0")
                   - Queued(queue, "process_rejoin_type0")
        type1 == Queued(queue', "process_rejoin_type1")
                   - Queued(queue, "process_rejoin_type1")
    IN app'.op \in {"process_reception", "process_reception_timeout"} =>
          /\ type0 \in {0, 1} /\ type1 \in {0, 1} /\ type0 + type1 <= 1
          /\ stack'.rejoin_type0_counter = IF type0 = 1 THEN 0 ELSE grown
          /\ type0 = 1 => /\ grown >= mac_rejoin_max_count
                          /\ "REJOIN_IN_PROGRESS" \in stack'.flags
          /\ type1 = 1 => "REJOIN_IN_PROGRESS" \in stack'.flags

(* C34: in a LoRaWAN 1.1 build the type-0 rejoin counter grows by one with *)
(* every processed downlink, rx timeout and rx error; rejoin polling with  *)
(* the counter at or above max_count, no rejoin in progress and no type-1  *)
(* rejoin due queues a type-0 rejoin, sets REJOIN_IN_PROGRESS and resets   *)
(* the counter to 0; with a type-1 rejoin due only the type-1 rejoin is    *)
(* queued and the counter is left as it is.                                *)
C34_Type0RejoinCounter == []PollRejoinEffect /\ [][ReceptionCounts]_vars

C34_Witness ==
    /\ app.op \in {"process_reception", "process_reception_timeout"}
    /\ queue # <<>> /\ queue[Len(queue)].h = "process_rejoin_type0"
    /\ stack.rejoin_type0_counter = 0
    /\ "REJOIN_IN_PROGRESS" \in stack.flags /\ ~app.pre.rejoin

(* C35: in every reachable state the control flags CONN_IN_PROGRESS and    *)
(* CONNECTED are never both set.                                           *)
C35_ConnectFlagsExclusive ==
    ~({"CONN_IN_PROGRESS", "CONNECTED"} \subseteq stack.flags)

\* a JoinAccept has ended the join in progress
C35_Witness ==
    /\ app.op = "process_reception"
    /\ "CONN_IN_PROGRESS" \in app.pre.flags /\ "CONNECTED" \notin app.pre.flags
    /\ "CONNECTED" \in stack.flags /\ "CONN_IN_PROGRESS" \notin stack.flags

(* C36: whenever the device state is IDLE, CONN_IN_PROGRESS is clear, so   *)
(* that a connect() after a join that ended with JOIN_FAILURE,             *)
(* CRYPTO_ERROR or a radio TX timeout is not rejected with BUSY.           *)
C36_IdleNotConnecting ==
    stack.state = "IDLE" =>
        /\ "CONN_IN_PROGRESS" \notin stack.flags
        /\ connect(Begin("connect"), "OTAA").ret # Status("BUSY")

(* C38: a send() that returns a negative status leaves the device state,   *)
(* the control flags, the RekeyInd attempt counter and the message in      *)
(* flight unchanged and posts no event to the application.                 *)
C38_FailedSendNoEffect ==
    \A port \in AnyPorts, data_null \in BOOLEAN, length \in AnyLengths,
       flags \in AnyFlags, sched \in SchedResults :
       LET r == handle_tx(Begin("send"), port, data_null, length, flags,
                          FALSE, FALSE, sched)
       IN r.ret.st # "LEN" =>
             /\ r.stack.state = stack.state
             /\ r.stack.flags = stack.flags
             /\ r.stack.rekey_ind_counter = stack.rekey_ind_counter
             /\ r.app.posted = <<>>
             /\ mac.tx_ongoing =>
                   /\ r.mac.tx_ongoing
                   /\ r.mac.msg = mac.msg /\ r.mac.req_type = mac.req_type

AutomaticUplinkQueued == Queued(queue, "send_automatic_uplink_message") > 0

AutomaticUplinkInFlight == mac.tx_ongoing /\ app.owner = "AUTO"

(* C37: the automatic-uplink-ongoing marker is set only while an automatic *)
(* uplink is queued or in flight; once the automatic uplink has ended      *)
(* (ack, retries exhausted, TX timeout, AUTOMATIC_UPLINK_ERROR) the marker *)
(* is clear.                                                               *)
C37_AutomaticUplinkMarker ==
    stack.automatic_uplink_ongoing =>
        AutomaticUplinkQueued \/ AutomaticUplinkInFlight

(* C39: in every reachable state, also when a new downlink was stored      *)
(* while the earlier one was only partly read, the read cursor belongs to  *)
(* the pending message (bytes read plus bytes pending are its size) and    *)
(* receive() copies only bytes that lie inside it: the read offset plus    *)
(* the bytes returned never exceeds the size of the pending message.       *)
C39_ReceiveWithinMessage ==
    RxReady =>
        /\ stack.rx_msg.pending_size # 0 =>
              stack.rx_msg.prev_read_size + stack.rx_msg.pending_size
                 = stack.rx_msg.buffer_size
        /\ \A length \in 1..MaxRxLen :
              LET r == handle_rx(Begin("receive"), FALSE, length, 0, 0, FALSE)
                  offset == IF stack.rx_msg.pending_size = 0 THEN 0
                            ELSE stack.rx_msg.prev_read_size
              IN r.ret.st = "LEN" =>
                    offset + r.ret.len <= stack.rx_msg.buffer_size

FailedInitialize == app.op = "initialize" /\ app.ret # Status("OK")

(* C40: an initialize() that returns a status other than OK (null queue,   *)
(* or MacOps initialization failure) leaves the device state               *)
(* NOT_INITIALIZED, so the operations that follow (add_app_callbacks,      *)
(* connect, send, receive) still return NOT_INITIALIZED.                   *)
C40_FailedInitializeStaysUninitialized ==
    FailedInitialize =>
        /\ stack.state = "NOT_INITIALIZED"
        /\ set_lora_callbacks(Begin("add_app_callbacks"), FALSE, TRUE).ret
              = Status("NOT_INITIALIZED")
        /\ connect(Begin("connect"), "ABP").ret = Status("NOT_INITIALIZED")
        /\ handle_tx(Begin("send"), 1, FALSE, SendLength, MSG_UNCONFIRMED_FLAG,
                     FALSE, FALSE, "OK").ret = Status("NOT_INITIALIZED")
        /\ handle_rx(Begin("receive"), FALSE, 1, 0, 0, FALSE).ret
              = Status("NOT_INITIALIZED")

====
